---- MODULE Spec2Model ----
(***************************************************************************)
(* Model of the OpenSilicon layout data engine: the layout database        *)
(* (opensilicon-core/src/database.rs), the cell model (cell.rs), the       *)
(* command journal (commands.rs) and the application state that owns the   *)
(* database (apps/frontend/src-tauri/src/lib.rs).                          *)
(*                                                                         *)
(* Conventions: Option<T> is a sequence of length 0 (None) or 1 (Some);    *)
(* Vec indices are 0-based as in the source, TLA+ sequences are 1-based,   *)
(* so element i of a Vec v is v[i + 1].  An f64 coordinate, delta or width  *)
(* is held in thousandths: the integer c stands for the f64 value c / 1000. *)
(* The scenarios that translate geometry use whole values (multiples of    *)
(* 1000), on which f64 addition is exact.  Where rounding matters a point   *)
(* holds its coordinates as IEEE 754 content instead and carries the field  *)
(* `ieee`; additions on such points are f64 additions.                      *)
(***************************************************************************)
EXTENDS Integers, Sequences, FiniteSets, TLC

\* ---------------------------------------------------------------------
\* Bounds of the model
\* ---------------------------------------------------------------------
\* largest number of edits in one behaviour: commands handed to
\* execute_command and geometry lists handed to import_all_geometries
MaxCommands == 3
\* largest number of primitives a caller pushes into one cell directly
MaxGeoms == 3
\* largest number of points in the generated XY records of a BOUNDARY
MaxPoints == 5
\* records appended to a stream after its HEADER
MaxRecords == 4

None == <<>>
Some(v) == <<v>>
IsSome(o) == Len(o) = 1
Unwrap(o) == o[1]

\* ---------------------------------------------------------------------
\* Vec helpers (0-based index arguments, as in the source)
\* ---------------------------------------------------------------------
\* Vec::remove(index): the vector without element `index`
VecRemove(v, index) ==
    [i \in 1..(Len(v) - 1) |-> IF i <= index THEN v[i] ELSE v[i + 1]]

\* mutant: e is placed in front of the vector
VecInsert_front(v, index, e) == <<e>> \o v

\* Vec::insert(index, e): e placed so that it becomes element `index`
VecInsert(v, index, e) ==
    [i \in 1..(Len(v) + 1) |->
        IF i <= index THEN v[i] ELSE IF i = index + 1 THEN e ELSE v[i - 1]]

\* Vec::pop / last: the top of a stack is the last element of its Vec
Pop(stack) == SubSeq(stack, 1, Len(stack) - 1)
Last(stack) == stack[Len(stack)]

\* ---------------------------------------------------------------------
\* f64 values of the excess-64 codec (gds.rs).  A finite f64 is held as
\* its IEEE 754 content: [neg, exp, sig] stands for
\* (-1)^neg * 1.f * 2^exp with sig the 53 bits "1f" (most significant
\* first); zero has sig = <<>>.  Multiplying and dividing by a power of two
\* is exact and only moves exp.  Subnormals, infinities and NaN are not
\* among the values of this model.
\* ---------------------------------------------------------------------
Zeros(n) == [i \in 1..n |-> 0]

\* the 8 bits of a byte, most significant first
ByteBits(b) == [i \in 1..8 |-> (b \div 2^(8 - i)) % 2]

\* the byte of 8 bits
BitsByte(bits) ==
    bits[1] * 128 + bits[2] * 64 + bits[3] * 32 + bits[4] * 16
      + bits[5] * 8 + bits[6] * 4 + bits[7] * 2 + bits[8]

RECURSIVE BytesBits(_)
BytesBits(bytes) ==
    IF bytes = <<>> THEN <<>> ELSE ByteBits(Head(bytes)) \o BytesBits(Tail(bytes))

RECURSIVE StripZeros(_)
StripZeros(bits) ==
    IF bits # <<>> /\ Head(bits) = 0 THEN StripZeros(Tail(bits)) ELSE bits

\* bits + 1, same length (wraps to zeros when every bit is 1)
RECURSIVE Increment(_)
Increment(bits) ==
    IF bits = <<>> THEN <<>>
    ELSE IF Last(bits) = 0 THEN Append(Pop(bits), 1)
    ELSE Append(Increment(Pop(bits)), 0)

F64Zero(neg) == [neg |-> neg, exp |-> 0, sig |-> <<>>]

\* f64::from_bits of the 8 bytes (most significant first) of a normal
\* number or a zero
f64_from_bits(b) ==
    LET biased == (b[1] % 128) * 16 + b[2] \div 16
        frac == SubSeq(BytesBits(b), 13, 64)
    IN IF biased = 0 THEN F64Zero(b[1] >= 128)
       ELSE [neg |-> b[1] >= 128, exp |-> biased - 1023, sig |-> <<1>> \o frac]

\* bits s without leading zeros, more than 53 of them, round up to 53: the
\* bits after the 53rd are more than half a unit of the 53rd, or exactly
\* half and the 53rd is 1 (ties to even)
RoundsUp(s) == s[54] = 1 /\ (s[53] = 1 \/ \E i \in 55..Len(s) : s[i] = 1)

\* `n as f64` for an unsigned integer given by its bits: exact up to 53
\* significant bits, rounded to nearest (ties to even) above
u64_as_f64(bits) ==
    CHOOSE v \in
        { IF s = <<>> THEN F64Zero(FALSE)
          ELSE IF Len(s) <= 53
          THEN [neg |-> FALSE, exp |-> Len(s) - 1, sig |-> s \o Zeros(53 - Len(s))]
          ELSE IF ~RoundsUp(s)
          THEN [neg |-> FALSE, exp |-> Len(s) - 1, sig |-> SubSeq(s, 1, 53)]
          ELSE CHOOSE up \in
                   { IF inc[1] = 0
                     THEN [neg |-> FALSE, exp |-> Len(s), sig |-> <<1>> \o Zeros(52)]
                     ELSE [neg |-> FALSE, exp |-> Len(s) - 1, sig |-> inc] :
                         inc \in {Increment(SubSeq(s, 1, 53))} } : TRUE :
              s \in {StripZeros(bits)} } : TRUE

\* v * 2^k
Scale(v, k) == IF v.sig = <<>> THEN v ELSE [v EXCEPT !.exp = @ + k]

\* Body(value), with value worked out once and for all before Body uses it
With(value, Body(_)) == CHOOSE result \in {Body(v) : v \in {value}} : TRUE

\* a - b for bits of equal length with a >= b: position i borrows when, to
\* its right, a place with a 0 under a 1 comes before any place where the
\* bits differ the other way
SubBits(a, b) ==
    [i \in 1..Len(a) |->
        (a[i] + b[i]
           + (IF \E j \in (i + 1)..Len(a) :
                    /\ a[j] < b[j]
                    /\ \A k \in (i + 1)..(j - 1) : a[k] = b[k]
              THEN 1 ELSE 0)) % 2]

\* a + b for bits of equal length, one bit longer: position i takes a carry
\* when, to its right, a place with two 1s comes before any place with
\* two 0s
AddBits(a, b) ==
    [i \in 1..(Len(a) + 1) |->
        ((IF i = 1 THEN 0 ELSE a[i - 1] + b[i - 1])
           + (IF \E j \in i..Len(a) :
                    /\ a[j] + b[j] = 2
                    /\ \A k \in i..(j - 1) : a[k] + b[k] = 1
              THEN 1 ELSE 0)) % 2]

\* a < b for bits of equal length
LessBits(a, b) ==
    \E i \in 1..Len(a) : a[i] < b[i] /\ \A j \in 1..(i - 1) : a[j] = b[j]

\* -v
f64_neg(v) == [v EXCEPT !.neg = ~@]

\* the magnitude of v in units of 2^lo, lo <= v.exp - 52, as n bits
Magnitude(v, lo, n) ==
    Zeros(n - (53 + v.exp - 52 - lo)) \o v.sig \o Zeros(v.exp - 52 - lo)

\* the magnitudes of a and b in the unit of the last bit of the smaller
\* exponent, as bits of one length
Aligned(a, b) ==
    [unit |-> (IF a.exp <= b.exp THEN a.exp ELSE b.exp) - 52,
     a |-> Magnitude(a, (IF a.exp <= b.exp THEN a.exp ELSE b.exp) - 52,
                     53 + (IF a.exp >= b.exp THEN a.exp - b.exp ELSE b.exp - a.exp)),
     b |-> Magnitude(b, (IF a.exp <= b.exp THEN a.exp ELSE b.exp) - 52,
                     53 + (IF a.exp >= b.exp THEN a.exp - b.exp ELSE b.exp - a.exp))]

\* the exact sum of two aligned magnitudes with signs: its magnitude and
\* its sign (a sum of zero is +0)
ExactSum(m, a_neg, b_neg) ==
    IF a_neg = b_neg THEN [unit |-> m.unit, neg |-> a_neg, bits |-> AddBits(m.a, m.b)]
    ELSE IF m.a = m.b THEN [unit |-> m.unit, neg |-> FALSE, bits |-> <<>>]
    ELSE IF LessBits(m.a, m.b)
    THEN [unit |-> m.unit, neg |-> b_neg, bits |-> SubBits(m.b, m.a)]
    ELSE [unit |-> m.unit, neg |-> a_neg, bits |-> SubBits(m.a, m.b)]

\* the f64 nearest to magnitude * 2^lo (ties to even), with the sign given
Rounded(magnitude, lo, negative) ==
    CHOOSE r \in { [Scale(v, lo) EXCEPT !.neg = negative] :
                       v \in {u64_as_f64(magnitude)} } : TRUE

\* the f64 sum a + b: the exact sum rounded to nearest, ties to even
f64_add(a, b) ==
    IF a.sig = <<>> /\ b.sig = <<>> THEN F64Zero(a.neg /\ b.neg)
    ELSE IF a.sig = <<>> THEN b
    ELSE IF b.sig = <<>> THEN a
    ELSE CHOOSE sum \in
             { Rounded(exact.bits, exact.unit, exact.neg) :
                   exact \in { ExactSum(m, a.neg, b.neg) : m \in {Aligned(a, b)} } } :
             TRUE

\* `v as u64` for v >= 0: the integer part, saturating at 2^64 - 1, as 64
\* bits
f64_as_u64(v) ==
    IF v.sig = <<>> \/ v.exp < 0 THEN Zeros(64)
    ELSE IF v.exp >= 64 THEN [i \in 1..64 |-> 1]
    ELSE LET int == IF v.exp >= 52 THEN v.sig \o Zeros(v.exp - 52)
                    ELSE SubSeq(v.sig, 1, v.exp + 1)
         IN Zeros(64 - Len(int)) \o int

\* Convert GDS-II excess-64 real format to IEEE 754 f64
gds_real8_to_f64(bytes) ==
    IF \A i \in 1..8 : bytes[i] = 0 THEN F64Zero(FALSE)
    ELSE LET neg == bytes[1] \div 128 = 1
             exponent == (bytes[1] % 128) - 64
             mantissa == BytesBits(SubSeq(bytes, 2, 8))
             mantissa_f == Scale(u64_as_f64(mantissa), -56)
             product == Scale(mantissa_f, 4 * exponent)
         IN [product EXCEPT !.neg = neg]

\* while val >= 1.0 && exponent < 127 { val /= 16.0; exponent += 1; }
RECURSIVE DivideLoop(_, _)
DivideLoop(val, exponent) ==
    IF val.exp >= 0 /\ exponent < 127
    THEN DivideLoop(Scale(val, -4), exponent + 1)
    ELSE [val |-> val, exponent |-> exponent]

\* while val < 1.0 / 16.0 && exponent > -64 { val *= 16.0; exponent -= 1; }
RECURSIVE MultiplyLoop(_, _)
MultiplyLoop(val, exponent) ==
    IF val.exp < -4 /\ exponent > -64
    THEN MultiplyLoop(Scale(val, 4), exponent - 1)
    ELSE [val |-> val, exponent |-> exponent]

\* Convert IEEE 754 f64 to GDS-II excess-64 real format
f64_to_gds_real8(value) ==
    IF value.sig = <<>> THEN Zeros(8)
    ELSE LET sign_bit == IF value.neg THEN 128 ELSE 0
             d == DivideLoop([value EXCEPT !.neg = FALSE], 1)
             m == MultiplyLoop(d.val, d.exponent)
             mantissa == f64_as_u64(Scale(m.val, 56))
             exp_byte == sign_bit + (((m.exponent + 64) % 256) % 128)
         IN <<exp_byte>> \o [i \in 1..7 |->
                               BitsByte(SubSeq(mantissa, 8 * i + 1, 8 * i + 8))]

\* ---------------------------------------------------------------------
\* Geometry kernel (geometry.rs)
\* ---------------------------------------------------------------------
Point_new(x, y) == [x |-> x, y |-> y]

Min2(a, b) == IF a <= b THEN a ELSE b
Max2(a, b) == IF a >= b THEN a ELSE b

Rect_new(layer_id, x1, y1, x2, y2) ==
    [type |-> "Rect", layer_id |-> layer_id,
     lower_left |-> Point_new(Min2(x1, x2), Min2(y1, y2)),
     upper_right |-> Point_new(Max2(x1, x2), Max2(y1, y2))]

Polygon_new(layer_id, vertices) ==
    [type |-> "Polygon", layer_id |-> layer_id, vertices |-> vertices]

Path_new(layer_id, points, width) ==
    [type |-> "Path", layer_id |-> layer_id, points |-> points, width |-> width]

Via_new(bottom_layer, top_layer, cut_layer, position, width, height) ==
    [type |-> "Via", bottom_layer |-> bottom_layer, top_layer |-> top_layer,
     cut_layer |-> cut_layer, position |-> position,
     width |-> width, height |-> height]

\* every point of a geometry, in declaration order
GeomPoints(geom) ==
    CASE geom.type = "Rect" -> <<geom.lower_left, geom.upper_right>>
      [] geom.type = "Polygon" -> geom.vertices
      [] geom.type = "Path" -> geom.points
      [] geom.type = "Via" -> <<geom.position>>

\* ---------------------------------------------------------------------
\* Cell model (cell.rs)
\* ---------------------------------------------------------------------
\* Cell::new: the id is drawn by Uuid::new_v4 in the source, an input here
Cell_new(id, name) ==
    [id |-> id, name |-> name, geometries |-> <<>>, instances |-> <<>>,
     pins |-> <<>>, modified |-> FALSE]

\* Transform::default(): rotation and scale are f64 values (0.0 and 1.0)
Transform_default ==
    [offset |-> Point_new(0, 0), rotation |-> F64Zero(FALSE), mirror_x |-> FALSE,
     scale |-> f64_from_bits(<<63, 240, 0, 0, 0, 0, 0, 0>>)]

CellInstance_new(id, cell_id, instance_name, transform) ==
    [id |-> id, cell_id |-> cell_id, instance_name |-> instance_name,
     transform |-> transform]

add_geometry(cell, geom) ==
    [cell EXCEPT !.geometries = Append(cell.geometries, geom),
                 !.modified = TRUE]

\* mutant: Vec::swap_remove, the last primitive takes the place of the removed one
remove_geometry_swap(cell, index) ==
    IF index < Len(cell.geometries)
    THEN [cell |-> [cell EXCEPT !.modified = TRUE,
                                !.geometries =
                                    VecRemove([cell.geometries EXCEPT ![index + 1] =
                                                   cell.geometries[Len(cell.geometries)]],
                                              Len(cell.geometries) - 1)],
          ret |-> Some(cell.geometries[index + 1])]
    ELSE [cell |-> cell, ret |-> None]

\* returns the updated cell and the removed primitive (an Option)
remove_geometry(cell, index) ==
    IF index < Len(cell.geometries)
    THEN [cell |-> [cell EXCEPT !.modified = TRUE,
                                !.geometries = VecRemove(cell.geometries, index)],
          ret |-> Some(cell.geometries[index + 1])]
    ELSE [cell |-> cell, ret |-> None]

add_instance(cell, instance) ==
    [cell EXCEPT !.instances = Append(cell.instances, instance),
                 !.modified = TRUE]

Pin_new(name, layer_id, shape, direction) ==
    [name |-> name, layer_id |-> layer_id, shape |-> shape,
     direction |-> direction]

add_pin(cell, pin) ==
    [cell EXCEPT !.pins = Append(cell.pins, pin),
                 !.modified = TRUE]

geometry_count(cell) == Len(cell.geometries)

\* ---------------------------------------------------------------------
\* Layout database: cell lookup (database.rs)
\* ---------------------------------------------------------------------
\* HashMap::insert: the mapping with `id` bound to `cell` (an old entry is replaced)
MapInsert(cells, id, cell) ==
    [i \in (DOMAIN cells) \cup {id} |-> IF i = id THEN cell ELSE cells[i]]

\* HashMap::remove: the mapping without `id`
MapRemove(cells, id) ==
    [i \in (DOMAIN cells) \ {id} |-> cells[i]]

\* get_cell / get_cell_mut: Some(cell) when the id is a key of the mapping
get_cell(db, id) ==
    IF id \in DOMAIN db.cells THEN Some(db.cells[id]) ELSE None

\* the database with the cell behind a get_cell_mut reference overwritten
set_cell(db, id, cell) ==
    [db EXCEPT !.cells = MapInsert(db.cells, id, cell)]

\* ---------------------------------------------------------------------
\* Concrete commands (commands.rs).  execute/undo take the command and the
\* database and return both, since both are `&mut`.
\* ---------------------------------------------------------------------
AddGeometryCommand_new(cell_id, geometry) ==
    [type |-> "AddGeometry", cell_id |-> cell_id, geometry |-> geometry,
     inserted_index |-> None]

AddGeometryCommand_execute(cmd, db) ==
    IF IsSome(get_cell(db, cmd.cell_id))
    THEN LET cell == add_geometry(db.cells[cmd.cell_id], cmd.geometry)
         IN [cmd |-> [cmd EXCEPT !.inserted_index = Some(geometry_count(cell) - 1)],
             db |-> set_cell(db, cmd.cell_id, cell)]
    ELSE [cmd |-> cmd, db |-> db]

\* mutant: the first geometry is removed, whatever index was recorded
AddGeometryCommand_undo_first(cmd, db) ==
    IF IsSome(cmd.inserted_index) /\ IsSome(get_cell(db, cmd.cell_id))
    THEN LET r == remove_geometry(db.cells[cmd.cell_id], 0)
         IN [cmd |-> cmd, db |-> set_cell(db, cmd.cell_id, r.cell)]
    ELSE [cmd |-> cmd, db |-> db]

AddGeometryCommand_undo(cmd, db) ==
    IF IsSome(cmd.inserted_index) /\ IsSome(get_cell(db, cmd.cell_id))
    THEN LET r == remove_geometry(db.cells[cmd.cell_id], Unwrap(cmd.inserted_index))
         IN [cmd |-> cmd, db |-> set_cell(db, cmd.cell_id, r.cell)]
    ELSE [cmd |-> cmd, db |-> db]

RemoveGeometryCommand_new(cell_id, index) ==
    [type |-> "RemoveGeometry", cell_id |-> cell_id, index |-> index,
     removed |-> None]

RemoveGeometryCommand_execute(cmd, db) ==
    IF IsSome(get_cell(db, cmd.cell_id))
    THEN LET r == remove_geometry(db.cells[cmd.cell_id], cmd.index)
         IN [cmd |-> [cmd EXCEPT !.removed = r.ret],
             db |-> set_cell(db, cmd.cell_id, r.cell)]
    ELSE [cmd |-> cmd, db |-> db]

\* mutant: the removed primitive is always pushed at the end
RemoveGeometryCommand_undo_push(cmd, db) ==
    IF IsSome(cmd.removed) /\ IsSome(get_cell(db, cmd.cell_id))
    THEN LET cell == db.cells[cmd.cell_id]
         IN [cmd |-> cmd,
             db |-> set_cell(db, cmd.cell_id,
                       [cell EXCEPT !.geometries = Append(cell.geometries, Unwrap(cmd.removed)),
                                    !.modified = TRUE])]
    ELSE [cmd |-> cmd, db |-> db]

\* `self.removed.take()` empties the field; it is refilled only when the
\* cell is found
RemoveGeometryCommand_undo(cmd, db) ==
    IF IsSome(cmd.removed)
    THEN LET geom == Unwrap(cmd.removed)
             taken == [cmd EXCEPT !.removed = None]
         IN IF IsSome(get_cell(db, cmd.cell_id))
            THEN LET cell == db.cells[cmd.cell_id]
                     geoms == IF cmd.index <= Len(cell.geometries)
                              THEN VecInsert(cell.geometries, cmd.index, geom)
                              ELSE Append(cell.geometries, geom)
                 IN [cmd |-> [taken EXCEPT !.removed = Some(geom)],
                     db |-> set_cell(db, cmd.cell_id,
                               [cell EXCEPT !.geometries = geoms,
                                            !.modified = TRUE])]
            ELSE [cmd |-> taken, db |-> db]
    ELSE [cmd |-> cmd, db |-> db]

MoveGeometryCommand_new(cell_id, indices, delta) ==
    [type |-> "MoveGeometry", cell_id |-> cell_id, indices |-> indices,
     delta |-> delta]

\* Point::new for coordinates held as IEEE 754 content
Point_ieee(x, y) == [x |-> x, y |-> y, ieee |-> TRUE]

IsIeee(pt) == "ieee" \in DOMAIN pt

\* pt.x += dx; pt.y += dy
translate_point(pt, dx, dy) ==
    IF IsIeee(pt)
    THEN CHOOSE moved \in { [p EXCEPT !.x = f64_add(@, d.x), !.y = f64_add(@, d.y)] :
                                p \in {pt}, d \in {[x |-> dx, y |-> dy]} } : TRUE
    ELSE [x |-> pt.x + dx, y |-> pt.y + dy]

\* (-delta.x, -delta.y)
Negated(delta) ==
    IF IsIeee(delta) THEN [delta EXCEPT !.x = f64_neg(@), !.y = f64_neg(@)]
    ELSE [x |-> -delta.x, y |-> -delta.y]

translate_geometry(geom, dx, dy) ==
    CASE geom.type = "Rect" ->
           [geom EXCEPT !.lower_left = translate_point(geom.lower_left, dx, dy),
                        !.upper_right = translate_point(geom.upper_right, dx, dy)]
      [] geom.type = "Polygon" ->
           [geom EXCEPT !.vertices =
               [i \in 1..Len(geom.vertices) |-> translate_point(geom.vertices[i], dx, dy)]]
      [] geom.type = "Path" ->
           [geom EXCEPT !.points =
               [i \in 1..Len(geom.points) |-> translate_point(geom.points[i], dx, dy)]]
      [] geom.type = "Via" ->
           [geom EXCEPT !.position = translate_point(geom.position, dx, dy)]

\* mutant: a primitive listed more than once is translated once
translate_indices_once(geoms, indices, dx, dy) ==
    [i \in 1..Len(geoms) |->
        IF \E k \in 1..Len(indices) : indices[k] = i - 1
        THEN translate_geometry(geoms[i], dx, dy)
        ELSE geoms[i]]

\* the loop `for &idx in &self.indices`: every in-range index, in list order
RECURSIVE translate_indices(_, _, _, _)
translate_indices(geoms, indices, dx, dy) ==
    IF indices = <<>> THEN geoms
    ELSE LET idx == Head(indices)
             next == IF idx < Len(geoms)
                     THEN [geoms EXCEPT ![idx + 1] = translate_geometry(geoms[idx + 1], dx, dy)]
                     ELSE geoms
         IN translate_indices(next, Tail(indices), dx, dy)

MoveGeometryCommand_execute(cmd, db) ==
    IF IsSome(get_cell(db, cmd.cell_id))
    THEN LET cell == db.cells[cmd.cell_id]
         IN [cmd |-> cmd,
             db |-> set_cell(db, cmd.cell_id,
                       [cell EXCEPT !.geometries =
                                       translate_indices(cell.geometries, cmd.indices,
                                                         cmd.delta.x, cmd.delta.y),
                                    !.modified = TRUE])]
    ELSE [cmd |-> cmd, db |-> db]

MoveGeometryCommand_undo(cmd, db) ==
    IF IsSome(get_cell(db, cmd.cell_id))
    THEN LET cell == db.cells[cmd.cell_id]
         IN [cmd |-> cmd,
             db |-> set_cell(db, cmd.cell_id,
                       [cell EXCEPT !.geometries =
                                       translate_indices(cell.geometries, cmd.indices,
                                                         Negated(cmd.delta).x,
                                                         Negated(cmd.delta).y),
                                    !.modified = TRUE])]
    ELSE [cmd |-> cmd, db |-> db]

\* dynamic dispatch of Command::execute / Command::undo
Command_execute(cmd, db) ==
    CASE cmd.type = "AddGeometry" -> AddGeometryCommand_execute(cmd, db)
      [] cmd.type = "RemoveGeometry" -> RemoveGeometryCommand_execute(cmd, db)
      [] cmd.type = "MoveGeometry" -> MoveGeometryCommand_execute(cmd, db)

Command_undo(cmd, db) ==
    CASE cmd.type = "AddGeometry" -> AddGeometryCommand_undo(cmd, db)
      [] cmd.type = "RemoveGeometry" -> RemoveGeometryCommand_undo(cmd, db)
      [] cmd.type = "MoveGeometry" -> MoveGeometryCommand_undo(cmd, db)

\* ---------------------------------------------------------------------
\* Command journal (commands.rs, CommandHistory).  The top of a stack is
\* the last element of its Vec.  Each operation returns the journal, the
\* database and, for undo/redo, the bool result.
\* ---------------------------------------------------------------------
CommandHistory_new == [undo_stack |-> <<>>, redo_stack |-> <<>>]

\* mutant: the redo stack survives an execute
CommandHistory_execute_keeps_redo(history, command, db) ==
    LET r == Command_execute(command, db)
    IN [history |-> [undo_stack |-> Append(history.undo_stack, r.cmd),
                     redo_stack |-> history.redo_stack],
        db |-> r.db]

CommandHistory_execute(history, command, db) ==
    LET r == Command_execute(command, db)
    IN [history |-> [undo_stack |-> Append(history.undo_stack, r.cmd),
                     redo_stack |-> <<>>],
        db |-> r.db]

\* mutant: undo reports success even when there was nothing to undo
CommandHistory_undo_always_true(history, db) ==
    IF history.undo_stack # <<>>
    THEN LET r == Command_undo(Last(history.undo_stack), db)
         IN [history |-> [undo_stack |-> Pop(history.undo_stack),
                          redo_stack |-> Append(history.redo_stack, r.cmd)],
             db |-> r.db, ret |-> TRUE]
    ELSE [history |-> history, db |-> db, ret |-> TRUE]

\* mutant: the undone command is queued at the bottom of the redo stack
CommandHistory_undo_fifo(history, db) ==
    IF history.undo_stack # <<>>
    THEN LET r == Command_undo(Last(history.undo_stack), db)
         IN [history |-> [undo_stack |-> Pop(history.undo_stack),
                          redo_stack |-> <<r.cmd>> \o history.redo_stack],
             db |-> r.db, ret |-> TRUE]
    ELSE [history |-> history, db |-> db, ret |-> FALSE]

CommandHistory_undo(history, db) ==
    IF history.undo_stack # <<>>
    THEN LET r == Command_undo(Last(history.undo_stack), db)
         IN [history |-> [undo_stack |-> Pop(history.undo_stack),
                          redo_stack |-> Append(history.redo_stack, r.cmd)],
             db |-> r.db, ret |-> TRUE]
    ELSE [history |-> history, db |-> db, ret |-> FALSE]

\* mutant: redo moves the command back without re-executing it
CommandHistory_redo_no_execute(history, db) ==
    IF history.redo_stack # <<>>
    THEN [history |-> [undo_stack |-> Append(history.undo_stack, Last(history.redo_stack)),
                       redo_stack |-> Pop(history.redo_stack)],
          db |-> db, ret |-> TRUE]
    ELSE [history |-> history, db |-> db, ret |-> FALSE]

CommandHistory_redo(history, db) ==
    IF history.redo_stack # <<>>
    THEN LET r == Command_execute(Last(history.redo_stack), db)
         IN [history |-> [undo_stack |-> Append(history.undo_stack, r.cmd),
                          redo_stack |-> Pop(history.redo_stack)],
             db |-> r.db, ret |-> TRUE]
    ELSE [history |-> history, db |-> db, ret |-> FALSE]

CommandHistory_can_undo(history) == history.undo_stack # <<>>

CommandHistory_can_redo(history) == history.redo_stack # <<>>

CommandHistory_clear(history) == [undo_stack |-> <<>>, redo_stack |-> <<>>]

\* ---------------------------------------------------------------------
\* Layout database (database.rs)
\* ---------------------------------------------------------------------
EmptyMap == [i \in {} |-> i]

\* LayoutDatabase::new: the id is drawn by Uuid::new_v4, an input here
LayoutDatabase_new(id, name) ==
    [id |-> id, name |-> name, layer_stack |-> <<>>, cells |-> EmptyMap,
     top_cell |-> None, command_history |-> CommandHistory_new,
     dbu_per_nm |-> 1]

\* mutant: every added cell becomes the top cell
add_cell_always_top(db, cell) ==
    [db |-> [db EXCEPT !.cells = MapInsert(db.cells, cell.id, cell),
                       !.top_cell = Some(cell.id)],
     ret |-> cell.id]

add_cell(db, cell) ==
    [db |-> [db EXCEPT !.cells = MapInsert(db.cells, cell.id, cell),
                       !.top_cell = IF db.top_cell = None THEN Some(cell.id)
                                    ELSE db.top_cell],
     ret |-> cell.id]

\* mutant: the top-cell pointer survives the removal of its cell
remove_cell_keeps_top(db, id) ==
    [db |-> [db EXCEPT !.cells = MapRemove(db.cells, id)],
     ret |-> get_cell(db, id)]

\* mutant: removing the top cell promotes a remaining cell
remove_cell_promotes(db, id) ==
    LET rest == (DOMAIN db.cells) \ {id}
    IN [db |-> [db EXCEPT !.top_cell = IF db.top_cell = Some(id)
                                       THEN (IF rest = {} THEN None
                                             ELSE Some(CHOOSE c \in rest : TRUE))
                                       ELSE db.top_cell,
                          !.cells = MapRemove(db.cells, id)],
        ret |-> get_cell(db, id)]

\* mutant: the instances that reference the removed cell are removed with it
remove_cell_cascades(db, id) ==
    LET kept(insts) == SelectSeq(insts, LAMBDA i : i.cell_id # id)
        rest == MapRemove(db.cells, id)
    IN [db |-> [db EXCEPT !.top_cell = IF db.top_cell = Some(id) THEN None
                                       ELSE db.top_cell,
                          !.cells = [c \in DOMAIN rest |->
                                        [rest[c] EXCEPT !.instances = kept(rest[c].instances)]]],
        ret |-> get_cell(db, id)]

remove_cell(db, id) ==
    [db |-> [db EXCEPT !.top_cell = IF db.top_cell = Some(id) THEN None
                                    ELSE db.top_cell,
                       !.cells = MapRemove(db.cells, id)],
     ret |-> get_cell(db, id)]

\* execute_command / undo / redo hand the database to its own journal; the
\* commands never touch the journal, which is put back afterwards
execute_command(db, command) ==
    LET r == CommandHistory_execute(db.command_history, command, db)
    IN [r.db EXCEPT !.command_history = r.history]

undo(db) ==
    LET r == CommandHistory_undo(db.command_history, db)
    IN [db |-> [r.db EXCEPT !.command_history = r.history], ret |-> r.ret]

redo(db) ==
    LET r == CommandHistory_redo(db.command_history, db)
    IN [db |-> [r.db EXCEPT !.command_history = r.history], ret |-> r.ret]

can_undo(db) == CommandHistory_can_undo(db.command_history)

can_redo(db) == CommandHistory_can_redo(db.command_history)

\* ---------------------------------------------------------------------
\* Textual snapshot (database.rs, serde derive on LayoutDatabase).  A file
\* is modelled by its parsed contents: a JSON document (the object's
\* fields) or a GDS-II record stream.
\* ---------------------------------------------------------------------
\* the fields the derived Serialize writes: command_history is #[serde(skip)]
to_json(db) ==
    [kind |-> "json",
     doc |-> [id |-> db.id, name |-> db.name, layer_stack |-> db.layer_stack,
              cells |-> db.cells, top_cell |-> db.top_cell,
              dbu_per_nm |-> db.dbu_per_nm]]

SnapshotFields == {"id", "name", "layer_stack", "cells", "top_cell", "dbu_per_nm"}

\* the derived Deserialize: every serialized field is required, unknown
\* fields are ignored and the skipped command_history is Default::default()
from_json(text) ==
    IF text.kind = "json" /\ SnapshotFields \subseteq DOMAIN text.doc
    THEN [ok |-> TRUE,
          db |-> [id |-> text.doc.id, name |-> text.doc.name,
                  layer_stack |-> text.doc.layer_stack,
                  cells |-> text.doc.cells, top_cell |-> text.doc.top_cell,
                  command_history |-> CommandHistory_new,
                  dbu_per_nm |-> text.doc.dbu_per_nm]]
    ELSE [ok |-> FALSE, err |-> "json"]

\* ---------------------------------------------------------------------
\* GDS-II codec (gds.rs).  A stream is the sequence of its bytes; offsets
\* are 0-based, byte `pos` of the stream is bytes[pos + 1].
\* ---------------------------------------------------------------------
\* mod record_type
HEADER == 2
BGNLIB == 258
LIBNAME == 518
UNITS == 773
ENDLIB == 1024
BGNSTR == 1282
STRNAME == 1542
ENDSTR == 1792
BOUNDARY == 2048
PATH == 2304
SREF == 2560
AREF == 2816
TEXT == 3072
LAYER == 3330
DATATYPE == 3586
WIDTH == 3843
XY == 4099
ENDEL == 4352
SNAME == 4614
NODE == 5376
STRANS == 6657
MAG == 6917
ANGLE == 7173
BOX == 11520
\* (record_type::STRING is STRING_TYPE here: STRING is a word of TLA+)
COLROW == 4866
TEXTTYPE == 5634
PRESENTATION == 5889
STRING_TYPE == 6406
PATHTYPE == 8450
BOXTYPE == 11778
PROPATTR == 11010
PROPVALUE == 11270

\* every record type the module record_type names
record_types ==
    {HEADER, BGNLIB, LIBNAME, UNITS, ENDLIB, BGNSTR, STRNAME, ENDSTR, BOUNDARY, PATH,
     SREF, AREF, TEXT, LAYER, DATATYPE, WIDTH, XY, ENDEL, SNAME, COLROW, NODE, TEXTTYPE,
     PRESENTATION, STRING_TYPE, STRANS, MAG, ANGLE, PATHTYPE, BOX, BOXTYPE, PROPATTR, PROPVALUE}

\* The characters of the strings of this model: a String is held by a
\* label, and Chars gives the code points of its chars.  "e-acute" is the
\* one-char string U+00E9 and "A-tilde copyright" the two chars U+00C3
\* U+00A9.
Chars ==
    ("" :> <<>>) @@ ("A" :> <<65>>) @@ ("P" :> <<80>>) @@ ("ab" :> <<97, 98>>)
    @@ ("u1" :> <<117, 49>>) @@ ("top" :> <<116, 111, 112>>)
    @@ ("sub" :> <<115, 117, 98>>) @@ ("inv" :> <<105, 110, 118>>)
    @@ ("lib" :> <<108, 105, 98>>)
    @@ ("unnamed" :> <<117, 110, 110, 97, 109, 101, 100>>)
    @@ ("imported" :> <<105, 109, 112, 111, 114, 116, 101, 100>>)
    @@ ("Untitled Project" :> <<85, 110, 116, 105, 116, 108, 101, 100, 32,
                                80, 114, 111, 106, 101, 99, 116>>)
    @@ ("e-acute" :> <<233>>) @@ ("A-tilde copyright" :> <<195, 169>>)

\* the String with the given chars (one of the strings of this model)
String_from_chars(cs) == CHOOSE s \in DOMAIN Chars : Chars[s] = cs

\* str::bytes: the UTF-8 encoding (code points below U+0800)
RECURSIVE Utf8(_)
Utf8(cs) ==
    IF cs = <<>> THEN <<>>
    ELSE LET c == Head(cs)
         IN (IF c < 128 THEN <<c>> ELSE <<192 + (c \div 64), 128 + (c % 64)>>)
              \o Utf8(Tail(cs))

str_bytes(s) == Utf8(Chars[s])

\* str::trim_end_matches('\0')
RECURSIVE trim_end_nul(_)
trim_end_nul(cs) ==
    IF cs # <<>> /\ Last(cs) = 0 THEN trim_end_nul(Pop(cs)) ELSE cs

\* `v as i16` of an integer
as_i16(v) == LET m == v % 65536 IN IF m >= 32768 THEN m - 65536 ELSE m

\* `v as u32` of an i16: a negative value becomes v + 2^32
i16_as_u32(v) == IF v >= 0 THEN v ELSE 65536 * 65536 + v

\* u16 / i16 ::to_be_bytes
be16(v) == <<(v \div 256) % 256, v % 256>>

\* i32::to_be_bytes
be32(v) == <<(v \div 16777216) % 256, (v \div 65536) % 256, (v \div 256) % 256, v % 256>>

\* GdsRecord::as_i16_vec
as_i16_vec(data) ==
    [i \in 1..(Len(data) \div 2) |-> as_i16(data[2 * i - 1] * 256 + data[2 * i])]

\* GdsRecord::as_i32_vec
as_i32_vec(data) ==
    [i \in 1..(Len(data) \div 4) |->
        (IF data[4 * i - 3] >= 128 THEN data[4 * i - 3] - 256 ELSE data[4 * i - 3])
            * 16777216
          + data[4 * i - 2] * 65536 + data[4 * i - 1] * 256 + data[4 * i]]

\* GdsRecord::as_string: each byte is one char
as_string(data) == String_from_chars(trim_end_nul(data))

\* GdsRecord::as_f64_vec
as_f64_vec(data) ==
    [i \in 1..(Len(data) \div 8) |-> gds_real8_to_f64(SubSeq(data, 8 * i - 7, 8 * i))]

\* GdsError
InvalidRecord(offset, message) ==
    [type |-> "InvalidRecord", offset |-> offset, message |-> message]
UnexpectedRecord(record_type, expected) ==
    [type |-> "UnexpectedRecord", record_type |-> record_type, expected |-> expected]
Io(kind) == [type |-> "Io", kind |-> kind]

\* the natural number of a few bits
RECURSIVE BitsNat(_)
BitsNat(bits) == IF bits = <<>> THEN 0 ELSE 2 * BitsNat(Pop(bits)) + Last(bits)

\* the bits of a natural number, without leading zeros
RECURSIVE NatBits(_)
NatBits(n) == IF n = 0 THEN <<>> ELSE Append(NatBits(n \div 2), n % 2)

\* the f64 product v * 1e6, rounded to nearest: 1e6 = 15625 * 2^6, and the
\* 53 bits of v times 15625 are computed on 13-bit limbs
times_1e6(v) ==
    IF v.sig = <<>> THEN v
    ELSE LET limb(i) == BitsNat(SubSeq(v.sig, 13 * i - 11, 13 * i + 1))
             bits13(n) == [i \in 1..13 |-> (n \div 2^(13 - i)) % 2]
             t0 == limb(4) * 15625
             t1 == limb(3) * 15625 + (t0 \div 8192)
             t2 == limb(2) * 15625 + (t1 \div 8192)
             t3 == limb(1) * 15625 + (t2 \div 8192)
             t4 == v.sig[1] * 15625 + (t3 \div 8192)
             p == u64_as_f64(NatBits(t4) \o bits13(t3 % 8192) \o bits13(t2 % 8192)
                               \o bits13(t1 % 8192) \o bits13(t0 % 8192))
         IN [neg |-> v.neg, exp |-> p.exp + v.exp - 46, sig |-> p.sig]

\* GdsReader::new: db_unit_in_um = 0.001
DefaultUnit == f64_from_bits(<<63, 80, 98, 77, 210, 241, 169, 252>>)

\* The f64 product `n as f64 * db_unit_in_um` as a coordinate of this model
\* (thousandths of a micrometre): n thousandths for the unit 0.001, and
\* 1000 * n * u for a unit that is a whole number u of micrometres below
\* 2^20.  Streams with other units are not among those of this model.
Coordinate(n, unit) ==
    IF unit = DefaultUnit THEN n
    ELSE LET whole == CHOOSE e \in 0..19 :
                         /\ unit.exp = e
                         /\ SubSeq(unit.sig, e + 2, 53) = Zeros(52 - e)
             u == BitsNat(SubSeq(unit.sig, 1, whole + 1))
         IN 1000 * n * (IF unit.neg THEN -u ELSE u)

\* coords.chunks_exact(2) as points
XYPoints(coords, unit) ==
    [i \in 1..(Len(coords) \div 2) |->
        Point_new(Coordinate(coords[2 * i - 1], unit), Coordinate(coords[2 * i], unit))]

\* BBox::from_points of a non-empty slice
BBox_from_points(points) ==
    LET xs == {points[i].x : i \in 1..Len(points)}
        ys == {points[i].y : i \in 1..Len(points)}
        Least(S) == CHOOSE m \in S : \A v \in S : m <= v
        Greatest(S) == CHOOSE m \in S : \A v \in S : m >= v
    IN [min |-> Point_new(Least(xs), Least(ys)),
        max |-> Point_new(Greatest(xs), Greatest(ys))]

\* mutant: any four points make a rectangle
is_axis_aligned_rect_any(points) == Len(points) = 4

\* Check if 4 points form an axis-aligned rectangle
is_axis_aligned_rect(points) ==
    /\ Len(points) = 4
    /\ Cardinality({points[i].x : i \in 1..4}) = 2
    /\ Cardinality({points[i].y : i \in 1..4}) = 2

\* mutant: a length field below 4 is taken for the end of the input
read_record_short_is_eof(bytes, pos) ==
    IF Len(bytes) - pos < 2 THEN [kind |-> "eof"]
    ELSE LET total_len == bytes[pos + 1] * 256 + bytes[pos + 2]
         IN IF total_len < 4 THEN [kind |-> "eof"]
            ELSE IF Len(bytes) - pos < total_len
            THEN [kind |-> "err", err |-> Io("UnexpectedEof")]
            ELSE [kind |-> "rec",
                  record_type |-> bytes[pos + 3] * 256 + bytes[pos + 4],
                  data |-> SubSeq(bytes, pos + 5, pos + total_len),
                  pos |-> pos + total_len]

\* mutant: the end of the input is an error wherever it falls
read_record_eof_is_error(bytes, pos) ==
    IF Len(bytes) - pos < 2 THEN [kind |-> "err", err |-> Io("UnexpectedEof")]
    ELSE LET total_len == bytes[pos + 1] * 256 + bytes[pos + 2]
         IN IF total_len < 4
            THEN [kind |-> "err",
                  err |-> InvalidRecord(pos + 2,
                              [text |-> "Record length {} is too small",
                               total_len |-> total_len])]
            ELSE IF Len(bytes) - pos < total_len
            THEN [kind |-> "err", err |-> Io("UnexpectedEof")]
            ELSE [kind |-> "rec",
                  record_type |-> bytes[pos + 3] * 256 + bytes[pos + 4],
                  data |-> SubSeq(bytes, pos + 5, pos + total_len),
                  pos |-> pos + total_len]

\* GdsReader::read_record at offset pos: end of input (Ok(None)), an error,
\* or the record and the offset after it
read_record(bytes, pos) ==
    IF Len(bytes) - pos < 2 THEN [kind |-> "eof"]
    ELSE LET total_len == bytes[pos + 1] * 256 + bytes[pos + 2]
         IN IF total_len < 4
            THEN [kind |-> "err",
                  err |-> InvalidRecord(pos + 2,
                              [text |-> "Record length {} is too small",
                               total_len |-> total_len])]
            ELSE IF Len(bytes) - pos < total_len
            THEN [kind |-> "err", err |-> Io("UnexpectedEof")]
            ELSE [kind |-> "rec",
                  record_type |-> bytes[pos + 3] * 256 + bytes[pos + 4],
                  data |-> SubSeq(bytes, pos + 5, pos + total_len),
                  pos |-> pos + total_len]

\* mutant: any first record is accepted
read_header_any(bytes) ==
    LET rec == read_record(bytes, 0)
    IN CASE rec.kind = "eof" ->
              [ok |-> FALSE, err |-> InvalidRecord(0, [text |-> "Empty file"])]
         [] rec.kind = "err" -> [ok |-> FALSE, err |-> rec.err]
         [] OTHER -> [ok |-> TRUE, pos |-> rec.pos]

\* mutant: the HEADER record is looked at and left in the input
read_header_peek(bytes) ==
    LET rec == read_record(bytes, 0)
    IN CASE rec.kind = "eof" ->
              [ok |-> FALSE, err |-> InvalidRecord(0, [text |-> "Empty file"])]
         [] rec.kind = "err" -> [ok |-> FALSE, err |-> rec.err]
         [] rec.record_type # HEADER ->
              [ok |-> FALSE, err |-> UnexpectedRecord(rec.record_type, HEADER)]
         [] OTHER -> [ok |-> TRUE, pos |-> 0]

\* GdsReader::read_header: the offset after the HEADER record, or an error
read_header(bytes) ==
    LET rec == read_record(bytes, 0)
    IN CASE rec.kind = "eof" ->
              [ok |-> FALSE, err |-> InvalidRecord(0, [text |-> "Empty file"])]
         [] rec.kind = "err" -> [ok |-> FALSE, err |-> rec.err]
         [] rec.record_type # HEADER ->
              [ok |-> FALSE, err |-> UnexpectedRecord(rec.record_type, HEADER)]
         [] OTHER -> [ok |-> TRUE, pos |-> rec.pos]

\* what the loops of read_boundary, read_path, read_sref and read_box
\* start from: no layer, no width, no points, no name, Transform::default()
NoFields ==
    [layer |-> 0, width |-> 0, points |-> <<>>, cell_name |-> "",
     transform |-> Transform_default, position |-> Point_new(0, 0)]

\* The record loop of an element, up to ENDEL or the end of input.  Each
\* of read_boundary, read_path, read_sref and read_box (and skip_to_endel)
\* matches some of these record types and uses the fields it sets; the
\* others it skips.
RECURSIVE read_fields(_, _, _, _)
read_fields(bytes, pos, unit, f) ==
    With(read_record(bytes, pos), LAMBDA rec :
      CASE rec.kind = "eof" -> [ok |-> TRUE, pos |-> Len(bytes), fields |-> f]
        [] rec.kind = "err" -> [ok |-> FALSE, err |-> rec.err]
        [] rec.record_type = ENDEL -> [ok |-> TRUE, pos |-> rec.pos, fields |-> f]
        [] OTHER ->
             LET i16s == as_i16_vec(rec.data)
                 i32s == as_i32_vec(rec.data)
                 f64s == as_f64_vec(rec.data)
                 g == CASE rec.record_type = LAYER /\ i16s # <<>> ->
                             [f EXCEPT !.layer = i16_as_u32(i16s[1])]
                        [] rec.record_type = WIDTH /\ i32s # <<>> ->
                             [f EXCEPT !.width = Coordinate(i32s[1], unit)]
                        [] rec.record_type = XY ->
                             [f EXCEPT !.points = @ \o XYPoints(i32s, unit),
                                       !.position =
                                           IF Len(i32s) >= 2
                                           THEN XYPoints(i32s, unit)[1] ELSE @]
                        [] rec.record_type = SNAME ->
                             [f EXCEPT !.cell_name = as_string(rec.data)]
                        [] rec.record_type = STRANS /\ i16s # <<>> ->
                             [f EXCEPT !.transform.mirror_x = i16s[1] < 0]
                        [] rec.record_type = MAG /\ f64s # <<>> ->
                             [f EXCEPT !.transform.scale = f64s[1]]
                        [] rec.record_type = ANGLE /\ f64s # <<>> ->
                             [f EXCEPT !.transform.rotation = f64s[1]]
                        [] OTHER -> f
             IN With(g, LAMBDA fields : read_fields(bytes, rec.pos, unit, fields)))

\* points without a closing vertex equal to the first
Unclosed(points) ==
    IF Len(points) > 1 /\ points[1] = Last(points) THEN Pop(points) ELSE points

\* the Rect spanning the bounding box of points
Rect_spanning(layer, points) ==
    With(BBox_from_points(points), LAMBDA bbox :
      Rect_new(layer, bbox.min.x, bbox.min.y, bbox.max.x, bbox.max.y))

\* GdsReader::read_boundary from the offset after the BOUNDARY record
read_boundary(bytes, pos, unit) ==
    With(read_fields(bytes, pos, unit, NoFields), LAMBDA r :
      IF ~r.ok THEN r
      ELSE With(Unclosed(r.fields.points), LAMBDA points :
             [ok |-> TRUE, pos |-> r.pos,
              geom |-> IF points = <<>> THEN None
                       ELSE IF Len(points) = 4 /\ is_axis_aligned_rect(points)
                       THEN Some(Rect_spanning(r.fields.layer, points))
                       ELSE Some(Polygon_new(r.fields.layer, points))]))

\* GdsReader::read_path from the offset after the PATH record
read_path(bytes, pos, unit) ==
    With(read_fields(bytes, pos, unit, NoFields), LAMBDA r :
      IF ~r.ok THEN r
      ELSE [ok |-> TRUE, pos |-> r.pos,
            geom |-> IF r.fields.points = <<>> THEN None
                     ELSE Some(Path_new(r.fields.layer, r.fields.points,
                                        r.fields.width))])

\* GdsReader::read_box from the offset after the BOX record
read_box(bytes, pos, unit) ==
    With(read_fields(bytes, pos, unit, NoFields), LAMBDA r :
      IF ~r.ok THEN r
      ELSE With(Unclosed(r.fields.points), LAMBDA points :
             [ok |-> TRUE, pos |-> r.pos,
              geom |-> IF points = <<>> THEN None
                       ELSE Some(Rect_spanning(r.fields.layer, points))]))

\* Uuid::nil()
Uuid_nil == "nil"

\* mutant: an SREF without a name gives an instance, too
read_sref_unnamed(bytes, pos, unit, id) ==
    With(read_fields(bytes, pos, unit, NoFields), LAMBDA r :
      IF ~r.ok THEN r
      ELSE [ok |-> TRUE, pos |-> r.pos,
            inst |-> Some(CellInstance_new(id, Uuid_nil, r.fields.cell_name,
                              [r.fields.transform EXCEPT
                                  !.offset = r.fields.position]))])

\* GdsReader::read_sref from the offset after the SREF record; `id` is the
\* id Uuid::new_v4 gives the instance
read_sref(bytes, pos, unit, id) ==
    With(read_fields(bytes, pos, unit, NoFields), LAMBDA r :
      IF ~r.ok THEN r
      ELSE [ok |-> TRUE, pos |-> r.pos,
            inst |-> IF r.fields.cell_name = "" THEN None
                     ELSE Some(CellInstance_new(id, Uuid_nil, r.fields.cell_name,
                                   [r.fields.transform EXCEPT
                                       !.offset = r.fields.position]))])

\* mutant: the loop does not stop at ENDEL and runs to the end of the input
skip_to_endel_to_end(bytes, pos) ==
    [ok |-> TRUE, pos |-> Len(bytes), fields |-> NoFields]

\* GdsReader::skip_to_endel
skip_to_endel(bytes, pos) == read_fields(bytes, pos, DefaultUnit, NoFields)

\* GdsReader::read_structure from the offset after the BGNSTR record.
\* `ids` are the ids Uuid::new_v4 hands out, in order: the first went to
\* `cell` (Cell::new("unnamed")), the next go to the instances.
RECURSIVE read_structure(_, _, _, _, _)
read_structure(bytes, pos, unit, cell, ids) ==
    With(read_record(bytes, pos), LAMBDA rec :
      CASE rec.kind = "eof" ->
             [ok |-> TRUE, pos |-> Len(bytes), cell |-> cell, ids |-> ids]
        [] rec.kind = "err" -> [ok |-> FALSE, err |-> rec.err]
        [] rec.record_type = STRNAME ->
             With([cell EXCEPT !.name = as_string(rec.data)], LAMBDA named :
               read_structure(bytes, rec.pos, unit, named, ids))
        [] rec.record_type \in {BOUNDARY, PATH, BOX} ->
             With(CASE rec.record_type = BOUNDARY -> read_boundary(bytes, rec.pos, unit)
                    [] rec.record_type = PATH -> read_path(bytes, rec.pos, unit)
                    [] OTHER -> read_box(bytes, rec.pos, unit),
                  LAMBDA r :
               IF ~r.ok THEN r
               ELSE With(IF r.geom = None THEN cell
                         ELSE add_geometry(cell, Unwrap(r.geom)), LAMBDA grown :
                      read_structure(bytes, r.pos, unit, grown, ids)))
        [] rec.record_type = SREF ->
             With(read_sref(bytes, rec.pos, unit, Head(ids)), LAMBDA r :
               IF ~r.ok THEN r
               ELSE IF r.inst = None
               THEN read_structure(bytes, r.pos, unit, cell, ids)
               ELSE With(add_instance(cell, Unwrap(r.inst)), LAMBDA grown :
                      read_structure(bytes, r.pos, unit, grown, Tail(ids))))
        [] rec.record_type \in {TEXT, NODE, AREF} ->
             With(skip_to_endel(bytes, rec.pos), LAMBDA r :
               IF ~r.ok THEN r
               ELSE read_structure(bytes, r.pos, unit, cell, ids))
        [] rec.record_type = ENDSTR ->
             [ok |-> TRUE, pos |-> rec.pos, cell |-> cell, ids |-> ids]
        [] OTHER -> read_structure(bytes, rec.pos, unit, cell, ids))

\* GdsReader::read_lib from offset pos with db_unit_in_um = unit
RECURSIVE read_lib(_, _, _, _, _)
read_lib(bytes, pos, unit, db, ids) ==
    With(read_record(bytes, pos), LAMBDA rec :
      CASE rec.kind = "eof" -> [ok |-> TRUE, db |-> db]
        [] rec.kind = "err" -> [ok |-> FALSE, err |-> rec.err]
        [] rec.record_type = LIBNAME ->
             With([db EXCEPT !.name = as_string(rec.data)], LAMBDA named :
               read_lib(bytes, rec.pos, unit, named, ids))
        [] rec.record_type = UNITS ->
             LET units == as_f64_vec(rec.data)
             IN With(IF Len(units) >= 2 THEN times_1e6(units[1]) ELSE unit,
                     LAMBDA db_unit_in_um :
                       read_lib(bytes, rec.pos, db_unit_in_um, db, ids))
        [] rec.record_type = BGNSTR ->
             With(read_structure(bytes, rec.pos, unit,
                                 Cell_new(Head(ids), "unnamed"), Tail(ids)),
                  LAMBDA r :
               IF ~r.ok THEN r
               ELSE With(add_cell(db, r.cell).db, LAMBDA grown :
                      read_lib(bytes, r.pos, unit, grown, r.ids)))
        [] rec.record_type = ENDLIB -> [ok |-> TRUE, db |-> db]
        [] OTHER -> read_lib(bytes, rec.pos, unit, db, ids))

\* GdsReader::new(reader).read(): read_header, then read_lib on a database
\* made by LayoutDatabase::new("imported") with id db_id.  A file that is
\* not a GDS-II stream (the JSON text of a project) ends inside its first
\* record.
GdsReader_read(text, db_id, ids) ==
    IF text.kind # "gds" THEN [ok |-> FALSE, err |-> Io("UnexpectedEof")]
    ELSE With(read_header(text.bytes), LAMBDA h :
           IF ~h.ok THEN h
           ELSE read_lib(text.bytes, h.pos, DefaultUnit,
                         LayoutDatabase_new(db_id, "imported"), ids))

\* ---------------------------------------------------------------------
\* GDS-II writer (gds.rs, GdsWriter).  write_record and the write_*_record
\* give the bytes of the record they append to the stream; the others give
\* the records they append, in order.
\* ---------------------------------------------------------------------
RECURSIVE Concat(_)
Concat(seqs) == IF seqs = <<>> THEN <<>> ELSE Head(seqs) \o Concat(Tail(seqs))

\* GdsWriter::write_record
write_record(record_type, data) ==
    be16((Len(data) + 4) % 65536) \o be16(record_type) \o data

\* values.iter().flat_map(|v| bytes(v)).collect(), bytes(v) being `width`
\* bytes long
flat_map(values, bytes(_), width) ==
    [k \in 1..(width * Len(values)) |->
        bytes(values[((k - 1) \div width) + 1])[((k - 1) % width) + 1]]

write_i16_record(record_type, values) ==
    write_record(record_type, flat_map(values, be16, 2))

write_i32_record(record_type, values) ==
    write_record(record_type, flat_map(values, be32, 4))

\* GDS strings must be even length
write_string_record(record_type, s) ==
    LET data == str_bytes(s)
    IN write_record(record_type, IF Len(data) % 2 # 0 THEN Append(data, 0) ELSE data)

write_real8_record(record_type, values) ==
    write_record(record_type, flat_map(values, f64_to_gds_real8, 8))

\* the timestamp of write_bgnlib and write_cell
Timestamp == <<2026, 2, 6, 0, 0, 0, 2026, 2, 6, 0, 0, 0>>

\* GdsWriter::write_units with db_unit_in_um = 0.001 (GdsWriter::new): the
\* f64 products 0.001 * 1e-3 and 0.001 * 1e-6
write_units ==
    write_real8_record(UNITS,
        << f64_from_bits(<<62, 176, 198, 247, 160, 181, 237, 141>>),
           f64_from_bits(<<62, 17, 46, 11, 232, 38, 214, 149>>) >>)

\* (c * scale) as i32 with scale = 1.0 / 0.001 = 1000.0: a coordinate of c
\* thousandths is c database units (the databases of this model hold
\* coordinates for which the product is exact), saturating at the i32 range
to_dbu(c) == Max2(-2147483647 - 1, Min2(2147483647, c))

\* GdsWriter::write_rect
write_rect(rect) ==
    LET x1 == to_dbu(rect.lower_left.x)
        y1 == to_dbu(rect.lower_left.y)
        x2 == to_dbu(rect.upper_right.x)
        y2 == to_dbu(rect.upper_right.y)
    IN << write_record(BOUNDARY, <<>>),
          write_i16_record(LAYER, <<as_i16(rect.layer_id)>>),
          write_i16_record(DATATYPE, <<0>>),
          write_i32_record(XY, <<x1, y1, x2, y1, x2, y2, x1, y2, x1, y1>>),
          write_record(ENDEL, <<>>) >>

\* points as x, y, x, y, ...
Coords(points) ==
    [k \in 1..(2 * Len(points)) |->
        IF k % 2 = 1 THEN to_dbu(points[(k + 1) \div 2].x)
        ELSE to_dbu(points[k \div 2].y)]

\* a writer that leaves the polygon open
write_polygon_open(poly) ==
    << write_record(BOUNDARY, <<>>),
       write_i16_record(LAYER, <<as_i16(poly.layer_id)>>),
       write_i16_record(DATATYPE, <<0>>),
       write_i32_record(XY, Coords(poly.vertices)),
       write_record(ENDEL, <<>>) >>

\* GdsWriter::write_polygon: the first vertex closes the polygon
write_polygon(poly) ==
    << write_record(BOUNDARY, <<>>),
       write_i16_record(LAYER, <<as_i16(poly.layer_id)>>),
       write_i16_record(DATATYPE, <<0>>),
       write_i32_record(XY,
           Coords(poly.vertices)
             \o (IF poly.vertices = <<>> THEN <<>>
                 ELSE Coords(<<poly.vertices[1]>>))),
       write_record(ENDEL, <<>>) >>

\* GdsWriter::write_path
write_path(path) ==
    << write_record(PATH, <<>>),
       write_i16_record(LAYER, <<as_i16(path.layer_id)>>),
       write_i16_record(DATATYPE, <<0>>),
       write_i32_record(WIDTH, <<to_dbu(path.width)>>),
       write_i32_record(XY, Coords(path.points)),
       write_record(ENDEL, <<>>) >>

\* GdsWriter::write_via: a rectangle on the cut layer (halves of the
\* model's widths are whole thousandths)
write_via(via) ==
    write_rect(Rect_new(via.cut_layer,
                        via.position.x - via.width \div 2,
                        via.position.y - via.height \div 2,
                        via.position.x + via.width \div 2,
                        via.position.y + via.height \div 2))

\* GdsWriter::write_sref
write_sref(inst) ==
    LET t == inst.transform
        one == Transform_default.scale
        scaled == ~(t.scale.sig = <<>> /\ one.sig = <<>>) /\ t.scale # one
        rotated == t.rotation.sig # <<>>
    IN Concat(<< << write_record(SREF, <<>>),
                    write_string_record(SNAME, inst.instance_name) >>,
                 IF t.mirror_x THEN <<write_i16_record(STRANS, <<-32768>>)>>
                 ELSE IF rotated \/ scaled THEN <<write_i16_record(STRANS, <<0>>)>>
                 ELSE <<>>,
                 IF scaled THEN <<write_real8_record(MAG, <<t.scale>>)>> ELSE <<>>,
                 IF rotated THEN <<write_real8_record(ANGLE, <<t.rotation>>)>> ELSE <<>>,
                 << write_i32_record(XY, <<to_dbu(t.offset.x), to_dbu(t.offset.y)>>),
                    write_record(ENDEL, <<>>) >> >>)

\* a writer that emits the instances of a cell before its geometries
write_cell_instances_first(cell) ==
    Concat(<< << write_i16_record(BGNSTR, Timestamp),
                 write_string_record(STRNAME, cell.name) >>,
              Concat([i \in 1..Len(cell.instances) |-> write_sref(cell.instances[i])]),
              Concat([i \in 1..Len(cell.geometries) |->
                        LET geom == cell.geometries[i]
                        IN CASE geom.type = "Rect" -> write_rect(geom)
                             [] geom.type = "Polygon" -> write_polygon(geom)
                             [] geom.type = "Path" -> write_path(geom)
                             [] geom.type = "Via" -> write_via(geom)]),
              <<write_record(ENDSTR, <<>>)>> >>)

\* GdsWriter::write_cell
write_cell(cell) ==
    Concat(<< << write_i16_record(BGNSTR, Timestamp),
                 write_string_record(STRNAME, cell.name) >>,
              Concat([i \in 1..Len(cell.geometries) |->
                        LET geom == cell.geometries[i]
                        IN CASE geom.type = "Rect" -> write_rect(geom)
                             [] geom.type = "Polygon" -> write_polygon(geom)
                             [] geom.type = "Path" -> write_path(geom)
                             [] geom.type = "Via" -> write_via(geom)]),
              Concat([i \in 1..Len(cell.instances) |-> write_sref(cell.instances[i])]),
              <<write_record(ENDSTR, <<>>)>> >>)

\* the records of GdsWriter::write(db): `order` is the order in which
\* db.all_cells() (HashMap::values) yields the cells
GdsWriter_records(db, order) ==
    Concat(<< << write_i16_record(HEADER, <<600>>),
                 write_i16_record(BGNLIB, Timestamp),
                 write_string_record(LIBNAME, db.name),
                 write_units >>,
              Concat([i \in 1..Len(order) |-> write_cell(db.cells[order[i]])]),
              <<write_record(ENDLIB, <<>>)>> >>)

\* GdsWriter::new(writer).write(db): the bytes of the stream
GdsWriter_write(db, order) == Concat(GdsWriter_records(db, order))

\* ---------------------------------------------------------------------
\* IPC commands (src-tauri/src/lib.rs).  Each takes the database behind the
\* mutex (and the file system) and returns what it leaves there and its
\* Result.
\* ---------------------------------------------------------------------
ProjectInfo(db) ==
    [name |-> db.name,
     cell_count |-> Cardinality(DOMAIN db.cells),
     top_cell |-> IF db.top_cell = None THEN None
                  ELSE IF Unwrap(db.top_cell) \in DOMAIN db.cells
                       THEN Some(db.cells[Unwrap(db.top_cell)].name)
                       ELSE Some("")]

Ok(v) == [ok |-> v]
Err(e) == [err |-> e]
IsOk(r) == "ok" \in DOMAIN r

create_cell(db, id, name) ==
    [db |-> add_cell(db, Cell_new(id, name)).db, ret |-> Ok(id)]

add_rect(db, cell_id, layer, x1, y1, x2, y2) ==
    LET after == execute_command(db,
                     AddGeometryCommand_new(cell_id, Rect_new(layer, x1, y1, x2, y2)))
    IN [db |-> after,
        ret |-> Ok(IF cell_id \in DOMAIN after.cells
                   THEN geometry_count(after.cells[cell_id]) ELSE 0)]

add_polygon(db, cell_id, layer, vertices) ==
    LET after == execute_command(db,
                     AddGeometryCommand_new(cell_id, Polygon_new(layer, vertices)))
    IN [db |-> after,
        ret |-> Ok(IF cell_id \in DOMAIN after.cells
                   THEN geometry_count(after.cells[cell_id]) ELSE 0)]

add_path(db, cell_id, layer, points, width) ==
    LET after == execute_command(db,
                     AddGeometryCommand_new(cell_id, Path_new(layer, points, width)))
    IN [db |-> after,
        ret |-> Ok(IF cell_id \in DOMAIN after.cells
                   THEN geometry_count(after.cells[cell_id]) ELSE 0)]

\* mutant: the command is executed whether or not the target exists
remove_geometry_unchecked(db, cell_id, index) ==
    [db |-> execute_command(db, RemoveGeometryCommand_new(cell_id, index)),
     ret |-> Ok(IF IsSome(get_cell(db, cell_id))
                THEN index < geometry_count(db.cells[cell_id]) ELSE FALSE)]

\* the IPC command remove_geometry (Cell::remove_geometry holds the name
\* remove_geometry in this module)
remove_geometry_ipc(db, cell_id, index) ==
    LET exists == IF IsSome(get_cell(db, cell_id))
                  THEN index < geometry_count(db.cells[cell_id]) ELSE FALSE
    IN [db |-> IF exists
               THEN execute_command(db, RemoveGeometryCommand_new(cell_id, index))
               ELSE db,
        ret |-> Ok(exists)]

move_geometries(db, cell_id, indices, dx, dy) ==
    [db |-> execute_command(db,
                MoveGeometryCommand_new(cell_id, indices, Point_new(dx, dy))),
     ret |-> Ok(TRUE)]

save_project_json(db, files, path) ==
    [files |-> [files EXCEPT ![path] = Some(to_json(db))], ret |-> Ok(TRUE)]

\* mutant: the loaded fields are copied into the open database
open_project_json_copies_fields(db, files, path) ==
    IF files[path] = None THEN [db |-> db, ret |-> Err("read")]
    ELSE LET r == from_json(Unwrap(files[path]))
         IN IF r.ok
            THEN [db |-> [r.db EXCEPT !.command_history = db.command_history],
                  ret |-> Ok(ProjectInfo(r.db))]
            ELSE [db |-> db, ret |-> Err(r.err)]

open_project_json(db, files, path) ==
    IF files[path] = None THEN [db |-> db, ret |-> Err("read")]
    ELSE LET r == from_json(Unwrap(files[path]))
         IN IF r.ok
            THEN [db |-> r.db, ret |-> Ok(ProjectInfo(r.db))]
            ELSE [db |-> db, ret |-> Err(r.err)]

\* the #[error] text of a GdsError, without its arguments
GdsError_to_string(e) ==
    CASE e.type = "InvalidRecord" -> "Invalid GDS-II record at offset {offset}: {message}"
      [] e.type = "UnexpectedRecord" ->
           "Unexpected record type 0x{record_type:04X}, expected 0x{expected:04X}"
      [] e.type = "Io" -> "I/O error: {0}"

\* mutant: the stream is read into the shared database in place
open_gds_file_in_place(db, files, path, db_id, ids) ==
    IF files[path] = None THEN [db |-> db, ret |-> Err("open")]
    ELSE With(GdsReader_read(Unwrap(files[path]), db_id, ids), LAMBDA r :
           IF r.ok
           THEN [db |-> r.db, ret |-> Ok(ProjectInfo(r.db))]
           ELSE [db |-> LayoutDatabase_new(db_id, "imported"),
                 ret |-> Err(GdsError_to_string(r.err))])

\* the error String is "GDS parse error: " followed by the GdsError's text
open_gds_file(db, files, path, db_id, ids) ==
    IF files[path] = None THEN [db |-> db, ret |-> Err("open")]
    ELSE With(GdsReader_read(Unwrap(files[path]), db_id, ids), LAMBDA r :
           IF r.ok
           THEN [db |-> r.db, ret |-> Ok(ProjectInfo(r.db))]
           ELSE [db |-> db, ret |-> Err(GdsError_to_string(r.err))])

\* a geometry record as the frontend store holds it
FlatGeometry(geom_type, layer_id, points, width) ==
    [geom_type |-> geom_type, layer_id |-> layer_id, points |-> points,
     width |-> width]

\* Option::unwrap_or
unwrap_or(o, default) == IF IsSome(o) THEN Unwrap(o) ELSE default

\* the default widths 0.1 and 0.17 are 100 and 170 thousandths
to_primitive(fg) ==
    CASE fg.geom_type = "rect" /\ Len(fg.points) >= 2 ->
           Some(Rect_new(fg.layer_id, fg.points[1].x, fg.points[1].y,
                         fg.points[2].x, fg.points[2].y))
      [] fg.geom_type = "polygon" /\ Len(fg.points) >= 3 ->
           Some(Polygon_new(fg.layer_id, fg.points))
      [] fg.geom_type = "path" /\ Len(fg.points) >= 2 ->
           Some(Path_new(fg.layer_id, fg.points, unwrap_or(fg.width, 100)))
      [] fg.geom_type = "via" /\ fg.points # <<>> ->
           Some(Via_new(fg.layer_id, fg.layer_id, fg.layer_id, fg.points[1],
                        unwrap_or(fg.width, 170), unwrap_or(fg.width, 170)))
      [] OTHER -> None

\* the loop `for fg in &geometries`: every primitive to_primitive yields is
\* pushed on the Vec itself
RECURSIVE push_primitives(_, _)
push_primitives(geoms, flat) ==
    IF flat = <<>> THEN geoms
    ELSE LET prim == to_primitive(Head(flat))
         IN push_primitives(IF IsSome(prim) THEN Append(geoms, Unwrap(prim))
                            ELSE geoms,
                            Tail(flat))

\* `new_id` is the id Uuid::new_v4 gives the cell made when there is no top
\* cell
import_all_geometries(db, new_id, geometries, project_name) ==
    LET named == IF IsSome(project_name)
                 THEN [db EXCEPT !.name = Unwrap(project_name)] ELSE db
        reused == IF IsSome(named.top_cell)
                  THEN IF IsSome(get_cell(named, Unwrap(named.top_cell)))
                       THEN set_cell(named, Unwrap(named.top_cell),
                                [named.cells[Unwrap(named.top_cell)]
                                    EXCEPT !.geometries = <<>>])
                       ELSE named
                  ELSE add_cell(named, Cell_new(new_id, "TOP")).db
        top_id == IF IsSome(named.top_cell) THEN Unwrap(named.top_cell) ELSE new_id
        filled == IF IsSome(get_cell(reused, top_id))
                  THEN set_cell(reused, top_id,
                           [reused.cells[top_id] EXCEPT !.geometries =
                               push_primitives(reused.cells[top_id].geometries,
                                               geometries)])
                  ELSE reused
    IN [db |-> filled, ret |-> Ok(ProjectInfo(filled))]

\* ---------------------------------------------------------------------
\* Spatial index (spatial.rs)
\* ---------------------------------------------------------------------
\* BBox::new keeps the two corners as given
BBox_new(min, max) == [min |-> min, max |-> max]

\* w / 2.0 for the widths of the model, which are whole multiples of 0.002
Half(w) == CHOOSE h \in {w \div 2} : 2 * h = w

\* Via::bbox: centred at position, not ordered
Via_bbox(via) ==
    BBox_new(Point_new(via.position.x - Half(via.width),
                       via.position.y - Half(via.height)),
             Point_new(via.position.x + Half(via.width),
                       via.position.y + Half(via.height)))

\* BBox::contains_point
contains_point(bbox, p) ==
    p.x >= bbox.min.x /\ p.x <= bbox.max.x /\ p.y >= bbox.min.y /\ p.y <= bbox.max.y

\* BBox::intersects
intersects(bbox, other) ==
    /\ bbox.min.x <= other.max.x
    /\ bbox.max.x >= other.min.x
    /\ bbox.min.y <= other.max.y
    /\ bbox.max.y >= other.min.y

SpatialEntry(geometry_index, bbox) == [geometry_index |-> geometry_index, bbox |-> bbox]

\* rstar's AABB::from_corners: the box encompassing the two points, its
\* lower corner the component-wise minimum, its upper corner the maximum
AABB_from_corners(p1, p2) ==
    [lower |-> <<Min2(p1[1], p2[1]), Min2(p1[2], p2[2])>>,
     upper |-> <<Max2(p1[1], p2[1]), Max2(p1[2], p2[2])>>]

\* rstar's AABB::contains_point and AABB::intersects, both inclusive
AABB_contains_point(aabb, point) ==
    \A i \in 1..2 : aabb.lower[i] <= point[i] /\ point[i] <= aabb.upper[i]

AABB_intersects(aabb, other) ==
    \A i \in 1..2 : aabb.lower[i] <= other.upper[i] /\ aabb.upper[i] >= other.lower[i]

\* <SpatialEntry as RTreeObject>::envelope
envelope(entry) ==
    AABB_from_corners(<<entry.bbox.min.x, entry.bbox.min.y>>,
                      <<entry.bbox.max.x, entry.bbox.max.y>>)

\* what a query yields: the entries without their order, which the R-tree
\* does not promise; Yielded(s)[e] is how many times e is yielded
Yielded(s) ==
    [e \in {s[i] : i \in DOMAIN s} |-> Cardinality({i \in DOMAIN s : s[i] = e})]

\* The R-tree is held as the list of its entries: rstar's RTree keeps every
\* entry loaded or inserted, and its locate_* queries visit exactly the
\* entries whose envelope passes the test.
\* SpatialIndex::new
SpatialIndex_new == [tree |-> <<>>]

\* SpatialIndex::build (RTree::bulk_load)
SpatialIndex_build(entries) == [tree |-> entries]

\* SpatialIndex::insert (RTree::insert)
SpatialIndex_insert(self, entry) == [self EXCEPT !.tree = Append(@, entry)]

\* SpatialIndex::query_point (RTree::locate_all_at_point)
query_point(self, point) ==
    Yielded(SelectSeq(self.tree,
        LAMBDA e : AABB_contains_point(envelope(e), <<point.x, point.y>>)))

\* SpatialIndex::query_viewport (RTree::locate_in_envelope_intersecting)
query_viewport(self, viewport) ==
    LET env == AABB_from_corners(<<viewport.min.x, viewport.min.y>>,
                                 <<viewport.max.x, viewport.max.y>>)
    IN Yielded(SelectSeq(self.tree, LAMBDA e : AABB_intersects(envelope(e), env)))

\* SpatialIndex::len (RTree::size)
SpatialIndex_len(self) == Len(self.tree)

\* SpatialIndex::is_empty
SpatialIndex_is_empty(self) == Len(self.tree) = 0

\* ---------------------------------------------------------------------
\* State
\* ---------------------------------------------------------------------
VARIABLES
    database,   \* the LayoutDatabase (AppState.database)
    ret,        \* what the last operation returned
    op,         \* the last operation: its name, its arguments and what
                \* can_undo()/can_redo() reported just before it
    disk,       \* the file system: path -> Option<file contents>
    issued,     \* how many edits (commands executed, lists imported) so far
    timeline,   \* history: the database as it was right after each command
                \* of the journal was executed; timeline[n + 1] is the state
                \* after the n-th command, timeline[1] the state when the
                \* journal was last empty by construction or clear().
                \* <<>> when the history is not tracked
    missed,     \* history: missed.seq[i] is TRUE when the most recent execute
                \* of undo_stack[i] found no cell with the command's cell_id;
                \* kept only when missed.track is TRUE
    spatial,    \* a SpatialIndex the caller holds
    mutex,      \* AppState.database's Mutex: the thread holding its guard, if any
    threads     \* the IPC call each thread is serving: its position and locals

vars == <<database, ret, op, disk, issued, timeline, missed, spatial,
          mutex, threads>>

\* the threads serving IPC calls; none is serving a call
Threads == {"t1", "t2"}
Idle == [pc |-> "idle"]
NoThreads == [t \in Threads |-> Idle]

cells == database.cells
top_cell == database.top_cell
undo_stack == database.command_history.undo_stack
redo_stack == database.command_history.redo_stack

\* what an operation returned, tagged by its type: (), bool, CellId,
\* Option<Cell>
RetUnit == [unit |-> TRUE]
RetBool(b) == [bool |-> b]
RetId(id) == [id |-> id]
RetCell(c) == [cell |-> c]
RetGeom(g) == [geom |-> g]

\* ---------------------------------------------------------------------
\* Inputs
\* ---------------------------------------------------------------------
Paths == {"a.json", "b.gds"}

\* a file system without files
NoFiles == [p \in Paths |-> None]

CellIds == {"c1", "c2"}

R0 == Rect_new(1, 1000, 1000, 0, 0)
G0 == Polygon_new(2, <<Point_new(0, 0), Point_new(1000, 0), Point_new(0, 1000)>>)
P0 == Path_new(3, <<Point_new(0, 0), Point_new(0, 1000)>>, 1000)
V0 == Via_new(1, 2, 4, Point_new(0, 0), 1000, 1000)

\* the commands a caller constructs: valid and out-of-range indices, a
\* repeated index, an empty index list; "c2" is missing from some databases
NewCommands ==
    { AddGeometryCommand_new("c1", V0),
      AddGeometryCommand_new("c2", R0),
      RemoveGeometryCommand_new("c1", 0),
      RemoveGeometryCommand_new("c1", 1),
      RemoveGeometryCommand_new("c1", 7),
      RemoveGeometryCommand_new("c2", 0),
      MoveGeometryCommand_new("c1", <<0>>, Point_new(1000, 0)),
      MoveGeometryCommand_new("c1", <<1, 0, 7, 1>>, Point_new(-1000, 2000)),
      MoveGeometryCommand_new("c1", <<>>, Point_new(1000, 1000)),
      MoveGeometryCommand_new("c2", <<0>>, Point_new(0, -1000)) }

\* a cell built by Cell::new followed by add_geometry calls
RECURSIVE CellWith(_, _, _)
CellWith(id, name, geoms) ==
    IF geoms = <<>> THEN Cell_new(id, name)
    ELSE add_geometry(CellWith(id, name, Pop(geoms)), Last(geoms))

\* a database built by LayoutDatabase::new followed by add_cell calls
RECURSIVE DatabaseWith(_)
DatabaseWith(cs) ==
    IF cs = <<>> THEN LayoutDatabase_new("db1", "Untitled Project")
    ELSE add_cell(DatabaseWith(Pop(cs)), Last(cs)).db

\* databases the journal scenarios start from
JournalDatabases ==
    { DatabaseWith(<<Cell_new("c1", "top")>>),
      DatabaseWith(<<CellWith("c1", "top", <<R0, P0>>)>>),
      DatabaseWith(<<[CellWith("c1", "top", <<G0>>) EXCEPT !.modified = FALSE],
                     CellWith("c2", "sub", <<V0>>)>>) }

\* ---------------------------------------------------------------------
\* History
\* ---------------------------------------------------------------------
Snapshot(db) ==
    [cells |-> db.cells, top_cell |-> db.top_cell,
     undo_stack |-> db.command_history.undo_stack]

Observed(db) == [can_undo |-> can_undo(db), can_redo |-> can_redo(db)]

Untracked == [track |-> FALSE, seq |-> <<>>]

\* `missed` after a command was executed and pushed on the undo stack
Pushed(m, flag) == IF m.track THEN [m EXCEPT !.seq = Append(@, flag)] ELSE m

\* ---------------------------------------------------------------------
\* Actions: the journal
\* ---------------------------------------------------------------------
Execute(cmd) ==
    /\ issued < MaxCommands
    /\ database' = execute_command(database, cmd)
    /\ ret' = RetUnit
    /\ op' = [name |-> "execute", cmd |-> cmd, pre |-> Observed(database)]
    /\ issued' = issued + 1
    /\ UNCHANGED <<disk, spatial, mutex, threads>>
    /\ timeline' = IF timeline = <<>> THEN <<>>
                   ELSE Append(SubSeq(timeline, 1, Len(undo_stack) + 1),
                               Snapshot(database'))
    /\ missed' = Pushed(missed, get_cell(database, cmd.cell_id) = None)

Undo ==
    /\ database' = undo(database).db
    /\ ret' = RetBool(undo(database).ret)
    /\ op' = [name |-> "undo", pre |-> Observed(database)]
    /\ missed' = IF undo_stack = <<>> THEN missed
                 ELSE [missed EXCEPT !.seq = Pop(@)]
    /\ UNCHANGED <<disk, issued, timeline, spatial, mutex, threads>>

Redo ==
    /\ database' = redo(database).db
    /\ ret' = RetBool(redo(database).ret)
    /\ op' = [name |-> "redo", pre |-> Observed(database)]
    /\ missed' = IF redo_stack = <<>> THEN missed
                 ELSE Pushed(missed,
                             get_cell(database, Last(redo_stack).cell_id) = None)
    /\ UNCHANGED <<disk, issued, timeline, spatial, mutex, threads>>

Clear ==
    /\ database' = [database EXCEPT
                       !.command_history = CommandHistory_clear(database.command_history)]
    /\ ret' = RetUnit
    /\ op' = [name |-> "clear", pre |-> Observed(database)]
    /\ UNCHANGED <<disk, issued, spatial, mutex, threads>>
    /\ timeline' = IF timeline = <<>> THEN <<>> ELSE <<Snapshot(database')>>
    /\ missed' = [missed EXCEPT !.seq = <<>>]

\* ---------------------------------------------------------------------
\* Actions: cell management
\* ---------------------------------------------------------------------
AddCell(cell) ==
    /\ database' = add_cell(database, cell).db
    /\ ret' = RetId(add_cell(database, cell).ret)
    /\ op' = [name |-> "add_cell", cell |-> cell, pre |-> Observed(database)]
    /\ UNCHANGED <<disk, issued, timeline, missed, spatial, mutex, threads>>

RemoveCell(id) ==
    /\ database' = remove_cell(database, id).db
    /\ ret' = RetCell(remove_cell(database, id).ret)
    /\ op' = [name |-> "remove_cell", id |-> id, pre |-> Observed(database)]
    /\ UNCHANGED <<disk, issued, timeline, missed, spatial, mutex, threads>>

\* ---------------------------------------------------------------------
\* Actions: the methods of Cell, called on the cell behind get_cell_mut
\* ---------------------------------------------------------------------
CellAddGeometry(id, geom) ==
    /\ IsSome(get_cell(database, id))
    /\ geometry_count(cells[id]) < MaxGeoms
    /\ database' = set_cell(database, id, add_geometry(cells[id], geom))
    /\ ret' = RetUnit
    /\ op' = [name |-> "Cell::add_geometry", id |-> id, geom |-> geom,
              pre |-> Observed(database)]
    /\ UNCHANGED <<disk, issued, timeline, missed, spatial, mutex, threads>>

CellRemoveGeometry(id, index) ==
    /\ IsSome(get_cell(database, id))
    /\ database' = set_cell(database, id, remove_geometry(cells[id], index).cell)
    /\ ret' = RetGeom(remove_geometry(cells[id], index).ret)
    /\ op' = [name |-> "Cell::remove_geometry", id |-> id, index |-> index,
              pre |-> Observed(database)]
    /\ UNCHANGED <<disk, issued, timeline, missed, spatial, mutex, threads>>

CellAddInstance(id, instance) ==
    /\ IsSome(get_cell(database, id))
    /\ cells[id].instances = <<>>
    /\ database' = set_cell(database, id, add_instance(cells[id], instance))
    /\ ret' = RetUnit
    /\ op' = [name |-> "Cell::add_instance", id |-> id, pre |-> Observed(database)]
    /\ UNCHANGED <<disk, issued, timeline, missed, spatial, mutex, threads>>

CellAddPin(id, pin) ==
    /\ IsSome(get_cell(database, id))
    /\ cells[id].pins = <<>>
    /\ database' = set_cell(database, id, add_pin(cells[id], pin))
    /\ ret' = RetUnit
    /\ op' = [name |-> "Cell::add_pin", id |-> id, pre |-> Observed(database)]
    /\ UNCHANGED <<disk, issued, timeline, missed, spatial, mutex, threads>>

\* ---------------------------------------------------------------------
\* The cell alone: any sequence of add_geometry, remove_geometry,
\* add_instance and add_pin on a cell made by Cell::new
\* ---------------------------------------------------------------------
NewGeoms == {R0, G0, P0, V0}

InitCell ==
    /\ database = DatabaseWith(<<Cell_new("c1", "top")>>)
    /\ ret = RetUnit
    /\ op = [name |-> "new", pre |-> Observed(database)]
    /\ disk = NoFiles
    /\ issued = 0
    /\ timeline = <<>>
    /\ missed = Untracked
    /\ spatial = SpatialIndex_new
    /\ mutex = None
    /\ threads = NoThreads

NextCell ==
    \/ \E geom \in NewGeoms : CellAddGeometry("c1", geom)
    \/ \E index \in 0..(MaxGeoms + 1) : CellRemoveGeometry("c1", index)
    \/ CellAddInstance("c1", CellInstance_new("i1", "c2", "u1", Transform_default))
    \/ CellAddPin("c1", Pin_new("vdd", 1, R0, "Power"))

SpecCell == InitCell /\ [][NextCell]_vars

\* ---------------------------------------------------------------------
\* The journal alone: any sequence of execute, undo, redo and clear on a
\* database whose cells are not added or removed meanwhile
\* ---------------------------------------------------------------------
InitJournal ==
    /\ database \in JournalDatabases
    /\ ret = RetUnit
    /\ op = [name |-> "new", pre |-> Observed(database)]
    /\ disk = NoFiles
    /\ issued = 0
    /\ timeline = <<Snapshot(database)>>
    /\ missed = Untracked
    /\ spatial = SpatialIndex_new
    /\ mutex = None
    /\ threads = NoThreads

NextJournal ==
    \/ \E cmd \in NewCommands : Execute(cmd)
    \/ Undo
    \/ Redo
    \/ Clear

SpecJournal == InitJournal /\ [][NextJournal]_vars

\* ---------------------------------------------------------------------
\* The database: any sequence of add_cell, remove_cell, execute_command,
\* undo and redo on a database made by LayoutDatabase::new
\* ---------------------------------------------------------------------
\* the cells a caller hands to add_cell: a fresh one, one that places an
\* instance of "c2", one that already holds a geometry
NewCells ==
    { Cell_new("c1", "top"),
      add_instance(Cell_new("c1", "top"), CellInstance_new("i1", "c2", "u1", Transform_default)),
      CellWith("c2", "sub", <<R0>>) }

\* the commands issued against it
CellCommands ==
    { AddGeometryCommand_new("c2", V0),
      RemoveGeometryCommand_new("c2", 0) }

Init ==
    /\ database = LayoutDatabase_new("db1", "Untitled Project")
    /\ ret = RetUnit
    /\ op = [name |-> "new", pre |-> Observed(database)]
    /\ disk = NoFiles
    /\ issued = 0
    /\ timeline = <<>>
    /\ missed = Untracked
    /\ spatial = SpatialIndex_new
    /\ mutex = None
    /\ threads = NoThreads

Next ==
    \/ \E cell \in NewCells : AddCell(cell)
    \/ \E id \in CellIds : RemoveCell(id)
    \/ \E cmd \in CellCommands : Execute(cmd)
    \/ Undo
    \/ Redo

Spec == Init /\ [][Next]_vars

\* ---------------------------------------------------------------------
\* Commands whose cell comes and goes: add_cell, remove_cell,
\* execute_command, undo and redo with commands that name one cell
\* ---------------------------------------------------------------------
MissingCellCommands ==
    { AddGeometryCommand_new("c2", V0),
      RemoveGeometryCommand_new("c2", 0),
      MoveGeometryCommand_new("c2", <<0>>, Point_new(1000, 0)) }

InitMissing ==
    /\ database = LayoutDatabase_new("db1", "Untitled Project")
    /\ ret = RetUnit
    /\ op = [name |-> "new", pre |-> Observed(database)]
    /\ disk = NoFiles
    /\ issued = 0
    /\ timeline = <<>>
    /\ missed = [track |-> TRUE, seq |-> <<>>]
    /\ spatial = SpatialIndex_new
    /\ mutex = None
    /\ threads = NoThreads

NextMissing ==
    \/ AddCell(CellWith("c2", "sub", <<R0, P0>>))
    \/ RemoveCell("c2")
    \/ \E cmd \in MissingCellCommands : Execute(cmd)
    \/ Undo
    \/ Redo

SpecMissing == InitMissing /\ [][NextMissing]_vars

\* ---------------------------------------------------------------------
\* The application: IPC commands on AppState
\* ---------------------------------------------------------------------
LibraryStream ==
    [kind |-> "gds",
     bytes |-> Concat(<< write_i16_record(HEADER, <<600>>),
                         write_i16_record(BGNLIB, Timestamp),
                         write_string_record(LIBNAME, "lib"),
                         write_i16_record(BGNSTR, Timestamp),
                         write_string_record(STRNAME, "inv"),
                         write_record(ENDSTR, <<>>),
                         write_record(ENDLIB, <<>>) >>)]

\* ids the open database and its journal already use
UsedIds(db) ==
    (DOMAIN db.cells)
    \cup {db.command_history.undo_stack[i].cell_id :
              i \in 1..Len(db.command_history.undo_stack)}
    \cup {db.command_history.redo_stack[i].cell_id :
              i \in 1..Len(db.command_history.redo_stack)}

CreateCell(name) ==
    \E id \in CellIds \ UsedIds(database) :
        /\ database' = create_cell(database, id, name).db
        /\ ret' = create_cell(database, id, name).ret
        /\ op' = [name |-> "create_cell", id |-> id, pre |-> Observed(database)]
        /\ UNCHANGED <<disk, issued, timeline, missed, spatial, mutex, threads>>

AddRect(cell_id) ==
    /\ issued < MaxCommands
    /\ database' = add_rect(database, cell_id, 1, 0, 0, 1000, 1000).db
    /\ ret' = add_rect(database, cell_id, 1, 0, 0, 1000, 1000).ret
    /\ op' = [name |-> "add_rect", cell_id |-> cell_id, pre |-> Observed(database)]
    /\ issued' = issued + 1
    /\ missed' = Pushed(missed, get_cell(database, cell_id) = None)
    /\ UNCHANGED <<disk, timeline, spatial, mutex, threads>>

SaveProjectJson(path) ==
    /\ disk' = save_project_json(database, disk, path).files
    /\ ret' = save_project_json(database, disk, path).ret
    /\ op' = [name |-> "save_project_json", path |-> path, pre |-> Observed(database)]
    /\ UNCHANGED <<database, issued, timeline, missed, spatial, mutex, threads>>

OpenProjectJson(path) ==
    /\ database' = open_project_json(database, disk, path).db
    /\ ret' = open_project_json(database, disk, path).ret
    /\ op' = [name |-> "open_project_json", path |-> path, pre |-> Observed(database)]
    /\ missed' = IF IsOk(ret') THEN [missed EXCEPT !.seq = <<>>] ELSE missed
    /\ UNCHANGED <<disk, issued, timeline, spatial, mutex, threads>>

OpenGdsFile(path) ==
    /\ database' = open_gds_file(database, disk, path, "db2", <<"c1", "c2">>).db
    /\ ret' = open_gds_file(database, disk, path, "db2", <<"c1", "c2">>).ret
    /\ op' = [name |-> "open_gds_file", path |-> path, pre |-> Observed(database)]
    /\ missed' = IF IsOk(ret') THEN [missed EXCEPT !.seq = <<>>] ELSE missed
    /\ UNCHANGED <<disk, issued, timeline, spatial, mutex, threads>>

\* what the frontend store sends: one rectangle, a via without a point
\* (dropped by to_primitive) followed by a triangle
FlatLists ==
    { <<FlatGeometry("rect", 1, <<Point_new(0, 0), Point_new(2000, 1000)>>, None)>>,
      <<FlatGeometry("via", 4, <<>>, Some(170)),
        FlatGeometry("polygon", 2,
                     <<Point_new(0, 0), Point_new(1000, 0), Point_new(0, 1000)>>,
                     None)>> }

ImportAllGeometries(geometries, project_name) ==
    \E id \in CellIds :
        /\ issued < MaxCommands
        /\ IF IsSome(top_cell) THEN id = Unwrap(top_cell)
                               ELSE id \notin UsedIds(database)
        /\ database' = import_all_geometries(database, id, geometries, project_name).db
        /\ ret' = import_all_geometries(database, id, geometries, project_name).ret
        /\ op' = [name |-> "import_all_geometries", id |-> id,
                  pre |-> Observed(database)]
        /\ issued' = issued + 1
        /\ UNCHANGED <<disk, timeline, missed, spatial, mutex, threads>>

InitApp ==
    /\ database = LayoutDatabase_new("db1", "Untitled Project")
    /\ ret = RetUnit
    /\ op = [name |-> "new", pre |-> Observed(database)]
    /\ disk = [NoFiles EXCEPT !["b.gds"] = Some(LibraryStream)]
    /\ issued = 0
    /\ timeline = <<>>
    /\ missed = Untracked
    /\ spatial = SpatialIndex_new
    /\ mutex = None
    /\ threads = NoThreads

NextApp ==
    \/ CreateCell("A")
    \/ \E c \in CellIds : AddRect(c)
    \/ Undo
    \/ Redo
    \/ SaveProjectJson("a.json")
    \/ \E p \in Paths : OpenProjectJson(p)
    \/ \E p \in Paths : OpenGdsFile(p)
    \/ \E geometries \in FlatLists : ImportAllGeometries(geometries, None)
    \/ ImportAllGeometries(<<>>, Some("P"))

SpecApp == InitApp /\ [][NextApp]_vars

\* ---------------------------------------------------------------------
\* Properties of the journal (checked under SpecJournal)
\* ---------------------------------------------------------------------
\* a cell mapping with every modified flag blanked
WithoutModified(cs) == [c \in DOMAIN cs |-> [cs[c] EXCEPT !.modified = FALSE]]

Reverse(seq) == [i \in 1..Len(seq) |-> seq[Len(seq) + 1 - i]]

\* the database as it was when the journal held as many executed commands
\* as the undo stack holds now
AtDepth == timeline[Len(undo_stack) + 1]

\* C1 (as claimed): after N commands and N undos the database is back in its
\* pre-sequence state, structurally: same cells and top_cell, and per cell
\* the same geometries, instances, pins and modified flag.
C1_UndoAllRestoresEverything ==
    undo_stack = <<>> => (cells = timeline[1].cells /\ top_cell = timeline[1].top_cell)

\* C1 (amended): whenever undos have brought the journal back to a depth, the
\* database has the cells and top_cell it had at that depth, and every cell has
\* the same id, name, geometries (same order), instances and pins; only the
\* modified flag is not restored.  With N executes and N undos the depth is the
\* pre-sequence one.
C1_UndoAllRestoresButModified ==
    /\ top_cell = AtDepth.top_cell
    /\ WithoutModified(cells) = WithoutModified(AtDepth.cells)

\* C1 witness: three commands were executed and all three undone, and the
\* first of them had changed a cell
C1_Witness ==
    /\ op.name = "undo" /\ ret.bool
    /\ undo_stack = <<>> /\ Len(redo_stack) = 3
    /\ WithoutModified(timeline[2].cells) # WithoutModified(timeline[1].cells)
    /\ cells # timeline[1].cells

C3_ExecuteClearsRedo ==
    [][ /\ (op'.name = "execute" =>
              /\ ~can_redo(database')
              /\ redo_stack' = <<>>
              /\ cells' = Command_execute(op'.cmd, database).db.cells
              /\ undo_stack' = Append(undo_stack, Command_execute(op'.cmd, database).cmd))
        /\ (op.name = "execute" /\ op'.name = "redo" =>
              ~ret'.bool /\ database' = database) ]_vars

\* C3 witness: an execute that found commands on the redo stack
C3_Witness ==
    /\ op.name = "execute" /\ op.pre.can_redo
    /\ ~can_redo(database)

\* C4: undo on an empty undo stack and redo on an empty redo stack return
\* false and change nothing; each returns true exactly when its stack was
\* non-empty, which is what can_undo/can_redo reported just before.
C4_EmptyStackNoOp ==
    [][ /\ (op'.name = "undo" =>
              /\ ret'.bool = can_undo(database)
              /\ ret'.bool = (undo_stack # <<>>)
              /\ (undo_stack = <<>> => database' = database))
        /\ (op'.name = "redo" =>
              /\ ret'.bool = can_redo(database)
              /\ ret'.bool = (redo_stack # <<>>)
              /\ (redo_stack = <<>> => database' = database)) ]_vars

\* C4 witness: an undo refused on an empty undo stack while the redo stack
\* held commands
C4_Witness ==
    /\ op.name = "undo" /\ ~ret.bool
    /\ undo_stack = <<>> /\ Len(redo_stack) >= 2

\* C5: the journal is two LIFO stacks in application order: undo_stack followed
\* by the reversed redo_stack is the sequence of commands in the order they
\* were executed; a successful undo inverts the top of the undo stack and moves
\* that command to the top of the redo stack, a successful redo re-executes the
\* top of the redo stack and moves it back; undo and redo keep the number of
\* commands held, execute makes it |undo_stack| + 1, clear makes it 0.
C5_Lifo ==
    /\ [](undo_stack \o Reverse(redo_stack) = Last(timeline).undo_stack)
    /\ [][ /\ (op'.name = "undo" /\ ret'.bool =>
                 /\ undo_stack' = Pop(undo_stack)
                 /\ redo_stack' = Append(redo_stack, Last(undo_stack))
                 /\ cells' = Command_undo(Last(undo_stack), database).db.cells)
           /\ (op'.name = "redo" /\ ret'.bool =>
                 /\ redo_stack' = Pop(redo_stack)
                 /\ undo_stack' = Append(undo_stack, Last(redo_stack))
                 /\ cells' = Command_execute(Last(redo_stack), database).db.cells)
           /\ (op'.name \in {"undo", "redo"} =>
                 Len(undo_stack') + Len(redo_stack') = Len(undo_stack) + Len(redo_stack))
           /\ (op'.name = "execute" =>
                 Len(undo_stack') + Len(redo_stack') = Len(undo_stack) + 1)
           /\ (op'.name = "clear" =>
                 undo_stack' = <<>> /\ redo_stack' = <<>>) ]_vars

\* C5 witness: a redo has moved a command back on top of the undo stack while
\* another stays on the redo stack
C5_Witness ==
    /\ op.name = "redo" /\ ret.bool
    /\ Len(undo_stack) = 2 /\ Len(redo_stack) = 1
    /\ undo_stack[1] # undo_stack[2] /\ undo_stack[2] # redo_stack[1]

\* ---------------------------------------------------------------------
\* Properties of cell management (checked under Spec)
\* ---------------------------------------------------------------------
\* C6: in every state reachable from an empty database by add_cell,
\* remove_cell, execute_command, undo and redo, top_cell is unset or the id
\* of a cell present in the cell mapping.
C6_TopCellExists ==
    top_cell = None \/ Unwrap(top_cell) \in DOMAIN cells

\* C6 witness: after commands were executed and undone, a cell that is not
\* the top cell was removed and the top cell is still in the mapping
C6_Witness ==
    /\ op.name = "remove_cell" /\ ret.cell # None
    /\ top_cell # None /\ Unwrap(top_cell) \in DOMAIN cells
    /\ can_undo(database) /\ can_redo(database)

\* C7: add_cell inserts the cell under the id it carries and returns that id;
\* it sets top_cell to that id exactly when top_cell was unset before and
\* otherwise leaves top_cell as it was; the other cells are untouched.
C7_AddCell ==
    [][ op'.name = "add_cell" =>
          /\ ret'.id = op'.cell.id
          /\ DOMAIN cells' = (DOMAIN cells) \cup {op'.cell.id}
          /\ cells'[op'.cell.id] = op'.cell
          /\ \A c \in (DOMAIN cells) \ {op'.cell.id} : cells'[c] = cells[c]
          /\ (top_cell = None => top_cell' = Some(op'.cell.id))
          /\ (top_cell # None => top_cell' = top_cell) ]_vars

\* C7 witness: a cell was added while another cell was the top cell, and the
\* top cell is still that other cell
C7_Witness ==
    /\ op.name = "add_cell"
    /\ top_cell # None /\ top_cell # Some(op.cell.id)
    /\ op.cell.id \in DOMAIN cells

\* C8: remove_cell of the current top cell leaves top_cell unset and promotes
\* no other cell, and top_cell stays unset until the next add_cell;
\* remove_cell of another cell leaves top_cell unchanged; remove_cell of an id
\* that is not in the mapping returns absent and changes nothing.
C8_RemoveCellTop ==
    [][ /\ (op'.name = "remove_cell" =>
              /\ (top_cell = Some(op'.id) => top_cell' = None)
              /\ (top_cell # Some(op'.id) => top_cell' = top_cell)
              /\ ret'.cell = get_cell(database, op'.id)
              /\ (op'.id \notin DOMAIN cells =>
                    ret'.cell = None /\ database' = database))
        /\ (top_cell = None /\ op'.name # "add_cell" => top_cell' = None) ]_vars

\* C8 witness: the top cell was removed, another cell remains and is not
\* promoted
C8_Witness ==
    /\ op.name = "remove_cell" /\ ret.cell # None
    /\ top_cell = None
    /\ \E c \in DOMAIN cells : c # op.id

\* C9: remove_cell(id) changes nothing but the mapping entry of id and
\* possibly top_cell: every other cell stays as it was, the instances that
\* reference the removed id included, and so do both journal stacks.
C9_RemoveCellFrame ==
    [][ op'.name = "remove_cell" =>
          /\ DOMAIN cells' = (DOMAIN cells) \ {op'.id}
          /\ \A c \in DOMAIN cells' : cells'[c] = cells[c]
          /\ database'.command_history = database.command_history
          /\ database'.id = database.id
          /\ database'.name = database.name
          /\ database'.layer_stack = database.layer_stack
          /\ database'.dbu_per_nm = database.dbu_per_nm ]_vars

\* C9 witness: a cell was removed while another cell holds an instance of it
\* and the journal holds a command that names it
C9_Witness ==
    /\ op.name = "remove_cell" /\ ret.cell # None
    /\ \E c \in DOMAIN cells :
          \E i \in 1..Len(cells[c].instances) : cells[c].instances[i].cell_id = op.id
    /\ \E i \in 1..Len(undo_stack) : undo_stack[i].cell_id = op.id
    /\ \E i \in 1..Len(redo_stack) : redo_stack[i].cell_id = op.id

C12_RemoveGeometry ==
    [][ op'.name = "Cell::remove_geometry" =>
          LET before == cells[op'.id]
              after == cells'[op'.id]
              index == op'.index
              n == Len(before.geometries)
          IN /\ (index >= n =>
                    /\ ret'.geom = None
                    /\ after = before)
             /\ (index < n =>
                    /\ ret'.geom = Some(before.geometries[index + 1])
                    /\ after.modified
                    /\ Len(after.geometries) = n - 1
                    /\ \A i \in 1..index : after.geometries[i] = before.geometries[i]
                    /\ \A i \in (index + 1)..(n - 1) :
                          after.geometries[i] = before.geometries[i + 1]
                    /\ after.instances = before.instances
                    /\ after.pins = before.pins
                    /\ after.id = before.id /\ after.name = before.name) ]_vars

\* C12 witness: the middle one of three different primitives was removed
C12_Witness ==
    /\ op.name = "Cell::remove_geometry" /\ op.index = 1
    /\ ret.geom # None
    /\ Len(cells["c1"].geometries) = 2
    /\ cells["c1"].geometries[1] # cells["c1"].geometries[2]
    /\ Unwrap(ret.geom) # cells["c1"].geometries[1]
    /\ Unwrap(ret.geom) # cells["c1"].geometries[2]

\* ---------------------------------------------------------------------
\* Properties of the dirty flag (checked under SpecApp)
\* ---------------------------------------------------------------------
\* what the modified flag of a cell stands for
Content(cell) == <<cell.geometries, cell.instances, cell.pins>>

GdsDatabases ==
    { DatabaseWith(<<>>),
      DatabaseWith(<<CellWith("c1", "top", <<R0, G0, P0>>)>>),
      DatabaseWith(<<CellWith("c1", "top", <<R0>>), CellWith("c2", "ab", <<>>)>>),
      DatabaseWith(<<CellWith("c1", "top", <<G0>>), CellWith("c2", "top", <<P0, R0>>)>>),
      DatabaseWith(<<CellWith("c1", "A", <<R0, Polygon_new(2, <<>>)>>)>>),
      DatabaseWith(<<CellWith("c1", "A", <<Path_new(3, <<>>, 1000), G0>>)>>),
      DatabaseWith(<<CellWith("c1", "e-acute", <<R0>>)>>),
      DatabaseWith(<<CellWith("c1", "A", <<Rect_new(32767, 0, 0, 1000, 1000),
                                           Rect_new(0, 0, 0, 1000, 1000)>>)>>),
      DatabaseWith(<<CellWith("c1", "A", <<Rect_new(65537, 0, 0, 1000, 1000),
                                           Polygon_new(65536, <<Point_new(0, 0)>>)>>)>>),
      DatabaseWith(<<CellWith("c1", "sub", <<V0>>),
                     add_instance(Cell_new("c2", "top"),
                         CellInstance_new("i1", "c1", "u1", Transform_default))>>) }

\* the orders in which HashMap::values may yield the cells of db
CellOrders(db) ==
    { order \in UNION { [1..n -> DOMAIN db.cells] : n \in {Cardinality(DOMAIN db.cells)} } :
        \A i, j \in DOMAIN order : i # j => order[i] # order[j] }

\* point lists of a BOUNDARY's XY record, in database units: the lists
\* (i, i * i), i < n, of n points with distinct x, and lists of rectangles,
\* diamonds and closed outlines
PointLists ==
    { [i \in 1..n |-> Point_new(i - 1, (i - 1) * (i - 1))] : n \in 0..MaxPoints }
    \cup
    { <<Point_new(5, 5), Point_new(5, 5)>>,
      <<Point_new(0, 0), Point_new(4, 0), Point_new(0, 3), Point_new(0, 0)>>,
      <<Point_new(0, 0), Point_new(4, 0), Point_new(4, 3), Point_new(0, 3), Point_new(0, 0)>>,
      <<Point_new(4, 3), Point_new(0, 3), Point_new(0, 0), Point_new(4, 0)>>,
      <<Point_new(0, 0), Point_new(4, 3), Point_new(4, 0), Point_new(0, 3)>>,
      <<Point_new(0, 0), Point_new(4, 3), Point_new(0, 0), Point_new(4, 3), Point_new(0, 0)>>,
      <<Point_new(2, 0), Point_new(4, 2), Point_new(2, 4), Point_new(0, 2), Point_new(2, 0)>>,
      <<Point_new(0, 0), Point_new(4, 0), Point_new(4, 3), Point_new(0, 5)>>,
      <<Point_new(0, 0), Point_new(4, 0), Point_new(4, 3), Point_new(0, 3),
        Point_new(-2, 1), Point_new(0, 0)>> }

\* The records of a stream with one structure "top" holding a BOUNDARY on
\* layer 7 with the points xy, a PATH, an SREF, a BOX and a TEXT element,
\* whose first record has type `first`.  `level` says where a record put in
\* front of this one would stand.
Layout(first, xy) ==
    LET at(level, rec) == [level |-> level, rec |-> rec]
        ints(points) ==
            Concat([i \in 1..Len(points) |-> <<points[i].x, points[i].y>>])
    IN << at("first", write_i16_record(first, <<600>>)),
          at("library", write_i16_record(BGNLIB, Timestamp)),
          at("library", write_string_record(LIBNAME, "lib")),
          at("library", write_i16_record(BGNSTR, Timestamp)),
          at("structure", write_string_record(STRNAME, "top")),
          at("structure", write_record(BOUNDARY, <<>>)),
          at("element", write_i16_record(LAYER, <<7>>)),
          at("element", write_i32_record(XY, ints(xy))),
          at("element", write_record(ENDEL, <<>>)),
          at("structure", write_record(PATH, <<>>)),
          at("element", write_i32_record(XY, <<0, 0, 0, 9>>)),
          at("element", write_record(ENDEL, <<>>)),
          at("structure", write_record(SREF, <<>>)),
          at("element", write_string_record(SNAME, "sub")),
          at("element", write_record(ENDEL, <<>>)),
          at("structure", write_record(BOX, <<>>)),
          at("element", write_i32_record(XY, <<0, 0, 2, 2>>)),
          at("element", write_record(ENDEL, <<>>)),
          at("structure", write_record(TEXT, <<>>)),
          at("skipped element", write_i16_record(LAYER, <<7>>)),
          at("skipped element", write_record(ENDEL, <<>>)),
          at("structure", write_record(ENDSTR, <<>>)),
          at("library", write_record(ENDLIB, <<>>)),
          at("after ENDLIB", <<>>) >>

\* a record whose total_length field is n < 4: the field and the n - 2
\* bytes it still counts
ShortRecord(n) == <<0, n>> \o Zeros(Max2(0, n - 2))

\* What is put in the file: the Layout's stream, with a short record of
\* length field `len` in front of record `at` when short is Some; or no
\* bytes at all when empty.
StreamChoices ==
    { [empty |-> FALSE, first |-> HEADER, xy |-> xy, short |-> None] : xy \in PointLists }
    \cup
    { [empty |-> FALSE, first |-> HEADER, xy |-> <<>>,
       short |-> Some([at |-> k, len |-> n])] :
          k \in 1..Len(Layout(HEADER, <<>>)), n \in 0..3 }
    \cup
    { [empty |-> FALSE, first |-> t, xy |-> <<>>, short |-> s] :
          t \in {0, BGNLIB, ENDLIB, HEADER + 1},
          s \in {None, Some([at |-> 2, len |-> 0])} }
    \cup
    { [empty |-> TRUE, first |-> HEADER, xy |-> <<>>, short |-> None] }

StreamOf(choice) ==
    LET layout == Layout(choice.first, choice.xy)
        recs == [i \in 1..Len(layout) |-> layout[i].rec]
        k == Unwrap(choice.short).at
    IN IF choice.empty THEN <<>>
       ELSE IF choice.short = None THEN Concat(recs)
       ELSE Concat(SubSeq(recs, 1, k - 1))
              \o ShortRecord(Unwrap(choice.short).len)
              \o Concat(SubSeq(recs, k, Len(recs)))

GdsFile(bytes) == [kind |-> "gds", bytes |-> bytes]

\* the file of every choice
Streams == [choice \in StreamChoices |-> GdsFile(StreamOf(choice))]

\* the ids Uuid::new_v4 hands to the reader's cells and instances, in order
ReaderIds == <<"n1", "n2", "n3", "n4", "n5", "n6">>

\* GdsWriter::new(File::create("b.gds")).write(&database)
GdsWrite(order) ==
    /\ disk' = [disk EXCEPT !["b.gds"] = Some(GdsFile(GdsWriter_write(database, order)))]
    /\ ret' = RetUnit
    /\ op' = [name |-> "GdsWriter::write", order |-> order]
    /\ UNCHANGED <<database, issued, timeline, missed, spatial, mutex, threads>>

\* some other program writes b.gds
PutStream(choice) ==
    /\ disk' = [disk EXCEPT !["b.gds"] = Some(Streams[choice])]
    /\ ret' = RetUnit
    /\ op' = [name |-> "stream", choice |-> choice]
    /\ UNCHANGED <<database, issued, timeline, missed, spatial, mutex, threads>>

\* GdsReader::new(File::open("b.gds")).read(); `of` is the step that made
\* the file
GdsRead ==
    /\ disk["b.gds"] # None
    /\ op.name # "GdsReader::read"
    /\ ret' = With(GdsReader_read(Unwrap(disk["b.gds"]), "db2", ReaderIds),
                   LAMBDA r : IF r.ok THEN Ok(r.db) ELSE Err(r.err))
    /\ op' = [name |-> "GdsReader::read", of |-> op]
    /\ UNCHANGED <<database, disk, issued, timeline, missed, spatial, mutex, threads>>

InitGds ==
    /\ database \in GdsDatabases
    /\ ret = RetUnit
    /\ op = [name |-> "new"]
    /\ disk = NoFiles
    /\ issued = 0
    /\ timeline = <<>>
    /\ missed = Untracked
    /\ spatial = SpatialIndex_new
    /\ mutex = None
    /\ threads = NoThreads

NextGds ==
    \/ \E order \in CellOrders(database) : GdsWrite(order)
    \/ \E choice \in StreamChoices : PutStream(choice)
    \/ GdsRead

SpecGds == InitGds /\ [][NextGds]_vars

\* ---------------------------------------------------------------------
\* The writer on more databases: a database is written and the file read
\* ---------------------------------------------------------------------
\* the geometry lists of up to MaxGeoms primitives
RECURSIVE GeomLists(_)
GeomLists(n) ==
    IF n = 0 THEN {<<>>}
    ELSE GeomLists(n - 1)
           \cup {Append(l, g) : l \in {m \in GeomLists(n - 1) : Len(m) = n - 1},
                                g \in NewGeoms}

\* the databases of SpecGds, a cell "top" with each of the geometry lists,
\* and a cell with a polygon of 8191 vertices, whose XY record has 65536
\* payload bytes
WriterDatabases ==
    GdsDatabases
    \cup { DatabaseWith(<<CellWith("c1", "top", l)>>) : l \in GeomLists(MaxGeoms) }
    \cup { DatabaseWith(<<CellWith("c1", "P",
                <<Polygon_new(2, [i \in 1..8191 |-> Point_new(i, 0)])>>)>>) }

InitWriter ==
    /\ database \in WriterDatabases
    /\ ret = RetUnit
    /\ op = [name |-> "new"]
    /\ disk = NoFiles
    /\ issued = 0
    /\ timeline = <<>>
    /\ missed = Untracked
    /\ spatial = SpatialIndex_new
    /\ mutex = None
    /\ threads = NoThreads

NextWriter ==
    \/ \E order \in CellOrders(database) : GdsWrite(order)
    \/ GdsRead

SpecWriter == InitWriter /\ [][NextWriter]_vars

\* ---------------------------------------------------------------------
\* The excess-64 codec on its own: a value is encoded, the bytes are
\* decoded, and the result may be encoded again
\* ---------------------------------------------------------------------
RetReal(v) == [real |-> v]
RetBytes(b) == [bytes |-> b]

\* the values of test_gds_real8_roundtrip, and pi
TestValue ==
    [zero |-> F64Zero(FALSE),
     one |-> f64_from_bits(<<63, 240, 0, 0, 0, 0, 0, 0>>),
     minus_one |-> f64_from_bits(<<191, 240, 0, 0, 0, 0, 0, 0>>),
     milli |-> f64_from_bits(<<63, 80, 98, 77, 210, 241, 169, 252>>),
     nano |-> f64_from_bits(<<62, 17, 46, 11, 232, 38, 214, 149>>),
     v3_14159 |-> f64_from_bits(<<64, 9, 33, 249, 240, 27, 134, 110>>),
     pi |-> f64_from_bits(<<64, 9, 33, 251, 84, 68, 45, 24>>),
     thousand |-> f64_from_bits(<<64, 143, 64, 0, 0, 0, 0, 0>>)]

TestValues == { TestValue[k] : k \in DOMAIN TestValue }

\* more values: powers of two from 2^-6 to 2^6 with the fractions 1.0, 1.5
\* and 2 - 2^-52, of both signs
RealValues ==
    TestValues \cup
    { [neg |-> n, exp |-> e, sig |-> <<1>> \o f] :
        n \in BOOLEAN, e \in -6..6,
        f \in {Zeros(52), <<1>> \o Zeros(51), [i \in 1..52 |-> 1]} }

EncodeReal ==
    /\ "real" \in DOMAIN ret
    /\ issued < MaxCommands
    /\ ret' = RetBytes(f64_to_gds_real8(ret.real))
    /\ op' = [name |-> "f64_to_gds_real8", value |-> ret.real]
    /\ issued' = issued + 1
    /\ UNCHANGED <<database, disk, timeline, missed, spatial, mutex, threads>>

DecodeReal ==
    /\ "bytes" \in DOMAIN ret
    /\ ret' = RetReal(gds_real8_to_f64(ret.bytes))
    /\ op' = [name |-> "gds_real8_to_f64", value |-> op.value, bytes |-> ret.bytes]
    /\ UNCHANGED <<database, disk, issued, timeline, missed, spatial, mutex, threads>>

InitReal ==
    /\ database = LayoutDatabase_new("db1", "Untitled Project")
    /\ \E v \in RealValues : ret = RetReal(v) /\ op = [name |-> "value", value |-> v]
    /\ disk = NoFiles
    /\ issued = 0
    /\ timeline = <<>>
    /\ missed = Untracked
    /\ spatial = SpatialIndex_new
    /\ mutex = None
    /\ threads = NoThreads

NextReal == EncodeReal \/ DecodeReal

SpecReal == InitReal /\ [][NextReal]_vars

\* ---------------------------------------------------------------------
\* The spatial index on its own: built from a list of entries, then
\* extended with insert and queried
\* ---------------------------------------------------------------------
\* the boxes of test_spatial_query, a box touching both, a box that is a
\* single point, and the box of a via of negative width, whose min.x
\* exceeds its max.x
SpatialBoxes ==
    [first |-> BBox_new(Point_new(0, 0), Point_new(10000, 10000)),
     second |-> BBox_new(Point_new(20000, 20000), Point_new(30000, 30000)),
     between |-> BBox_new(Point_new(10000, 10000), Point_new(20000, 20000)),
     dot |-> BBox_new(Point_new(5000, 5000), Point_new(5000, 5000)),
     via |-> Via_bbox(Via_new(1, 2, 4, Point_new(5000, 5000), -4000, 2000))]

\* entries numbered as a caller numbers them, by position
Numbered(boxes) == [i \in 1..Len(boxes) |-> SpatialEntry(i - 1, boxes[i])]

BuildLists ==
    { Numbered(<<>>),
      Numbered(<<SpatialBoxes.first, SpatialBoxes.second>>),
      Numbered(<<SpatialBoxes.first, SpatialBoxes.via>>),
      Numbered(<<SpatialBoxes.between>>) }

QueryPoints ==
    { Point_new(5000, 5000), Point_new(25000, 25000), Point_new(10000, 10000),
      Point_new(15000, 5000), Point_new(-1000, -1000), Point_new(20000, 15000) }

\* the viewport of test_spatial_query, a viewport equal to a box, one
\* touching a corner, one that meets no box, and one dragged from its upper
\* right to its lower left corner
Viewports ==
    { BBox_new(Point_new(-5000, -5000), Point_new(15000, 15000)),
      BBox_new(Point_new(10000, 10000), Point_new(20000, 20000)),
      BBox_new(Point_new(30000, 30000), Point_new(40000, 40000)),
      BBox_new(Point_new(11000, 0), Point_new(19000, 9000)),
      BBox_new(Point_new(15000, 15000), Point_new(-5000, -5000)) }

RetEntries(e) == [entries |-> e]
RetLen(n) == [len |-> n]

\* op.given: every entry handed to build and insert so far, in order
SpatialInsert(bbox) ==
    /\ issued < MaxCommands
    /\ LET entry == SpatialEntry(Len(op.given), bbox)
       IN /\ spatial' = SpatialIndex_insert(spatial, entry)
          /\ UNCHANGED <<mutex, threads>>
          /\ op' = [name |-> "SpatialIndex::insert", given |-> Append(op.given, entry)]
    /\ ret' = RetUnit
    /\ issued' = issued + 1
    /\ UNCHANGED <<database, disk, timeline, missed>>

SpatialQueryPoint(point) ==
    /\ ret' = RetEntries(query_point(spatial, point))
    /\ op' = [name |-> "SpatialIndex::query_point", point |-> point, given |-> op.given]
    /\ UNCHANGED <<database, disk, issued, timeline, missed, spatial, mutex, threads>>

SpatialQueryViewport(viewport) ==
    /\ ret' = RetEntries(query_viewport(spatial, viewport))
    /\ op' = [name |-> "SpatialIndex::query_viewport", viewport |-> viewport,
              given |-> op.given]
    /\ UNCHANGED <<database, disk, issued, timeline, missed, spatial, mutex, threads>>

SpatialLen ==
    /\ ret' = RetLen(SpatialIndex_len(spatial))
    /\ op' = [name |-> "SpatialIndex::len", given |-> op.given]
    /\ UNCHANGED <<database, disk, issued, timeline, missed, spatial, mutex, threads>>

SpatialIsEmpty ==
    /\ ret' = RetBool(SpatialIndex_is_empty(spatial))
    /\ op' = [name |-> "SpatialIndex::is_empty", given |-> op.given]
    /\ UNCHANGED <<database, disk, issued, timeline, missed, spatial, mutex, threads>>

InitSpatial ==
    /\ database = LayoutDatabase_new("db1", "Untitled Project")
    /\ \E entries \in BuildLists :
          /\ spatial = SpatialIndex_build(entries)
          /\ mutex = None
          /\ threads = NoThreads
          /\ op = [name |-> "SpatialIndex::build", given |-> entries]
    /\ ret = RetUnit
    /\ disk = NoFiles
    /\ issued = 0
    /\ timeline = <<>>
    /\ missed = Untracked

NextSpatial ==
    \/ \E k \in DOMAIN SpatialBoxes : SpatialInsert(SpatialBoxes[k])
    \/ \E point \in QueryPoints : SpatialQueryPoint(point)
    \/ \E viewport \in Viewports : SpatialQueryViewport(viewport)
    \/ SpatialLen
    \/ SpatialIsEmpty

SpecSpatial == InitSpatial /\ [][NextSpatial]_vars

\* ---------------------------------------------------------------------
\* Properties of the GDS-II codec (checked under SpecGds)
\* ---------------------------------------------------------------------
\* only Rect, Polygon and Path geometry and no instances
Plain(db) ==
    \A c \in DOMAIN db.cells :
        /\ db.cells[c].instances = <<>>
        /\ \A i \in 1..Len(db.cells[c].geometries) :
              db.cells[c].geometries[i].type \in {"Rect", "Polygon", "Path"}

\* a step that reads the file the step before wrote from `database`
ReadsWritten == op.name = "GdsWriter::write" /\ op'.name = "GdsReader::read"

\* how many cells of db are named name
Named(db, name) == Cardinality({c \in DOMAIN db.cells : db.cells[c].name = name})

\* C14: for a database with only Rect, Polygon and Path geometry and no
\* instances, reading what GdsWriter::write wrote gives a database with the
\* same number of cells, the same multiset of cell names and, cell by cell
\* in the order written, the same number of geometries.
C14_RoundTripCounts ==
    [][ ReadsWritten /\ Plain(database) =>
          /\ IsOk(ret')
          /\ Cardinality(DOMAIN ret'.ok.cells) = Cardinality(DOMAIN database.cells)
          /\ \A name \in DOMAIN Chars :
                Named(ret'.ok, name) = Named(database, name)
          /\ \A i \in 1..Len(op.order) :
                /\ ReaderIds[i] \in DOMAIN ret'.ok.cells
                /\ Len(ret'.ok.cells[ReaderIds[i]].geometries)
                     = Len(database.cells[op.order[i]].geometries) ]_vars

\* C15: for every geometry of a database that was written and read back,
\* the layer id read equals the layer id written, whatever u32 value it is
\* (geometries are paired cell by cell in the order written, and within a
\* cell by position when the cell kept its number of geometries).
C15_RoundTripLayers ==
    [][ ReadsWritten /\ Plain(database) =>
          /\ IsOk(ret')
          /\ \A i \in 1..Len(op.order) :
                LET written == database.cells[op.order[i]].geometries
                    read == ret'.ok.cells[ReaderIds[i]].geometries
                IN Len(read) = Len(written) =>
                     \A j \in 1..Len(written) :
                         read[j].layer_id = written[j].layer_id ]_vars

\* a state right after reading a stream put in the file
ReadStream == op.name = "GdsReader::read" /\ op.of.name = "stream"

\* the point list of the BOUNDARY, without a closing vertex equal to the
\* first, in the coordinates GdsReader::new's unit gives
BoundaryPoints ==
    LET xy == op.of.choice.xy
    IN IF Len(xy) > 1 /\ xy[1] = xy[Len(xy)] THEN SubSeq(xy, 1, Len(xy) - 1) ELSE xy

\* the geometries read into the one structure of the stream: what the
\* BOUNDARY gave, then the Path of the PATH and the Rect of the BOX
ReadGeometries == ret.ok.cells["n1"].geometries

\* a 4-point list with exactly 2 distinct x and exactly 2 distinct y
IsRectList(p) ==
    /\ Len(p) = 4
    /\ Cardinality({p[i].x : i \in 1..4}) = 2
    /\ Cardinality({p[i].y : i \in 1..4}) = 2

\* the Rect on `layer` spanning the bounding box of the points
SpanningRect(layer, p) ==
    LET xs == {p[i].x : i \in 1..Len(p)}
        ys == {p[i].y : i \in 1..Len(p)}
    IN [type |-> "Rect", layer_id |-> layer,
        lower_left |-> [x |-> CHOOSE m \in xs : \A v \in xs : m <= v,
                        y |-> CHOOSE m \in ys : \A v \in ys : m <= v],
        upper_right |-> [x |-> CHOOSE m \in xs : \A v \in xs : m >= v,
                         y |-> CHOOSE m \in ys : \A v \in ys : m >= v]]

Short == Unwrap(op.of.choice.short)
ShortLevel == Layout(op.of.choice.first, op.of.choice.xy)[Short.at].level
ShortOffset ==
    LET layout == Layout(op.of.choice.first, op.of.choice.xy)
    IN Len(Concat([i \in 1..(Short.at - 1) |-> layout[i].rec]))

\* the malformed-record error for the short record: its offset is the one
\* just past the length field
IsMalformedRecordError ==
    /\ ~IsOk(ret)
    /\ ret.err.type = "InvalidRecord"
    /\ ret.err.offset = ShortOffset + 2
    /\ ret.err.message = [text |-> "Record length {} is too small",
                          total_len |-> Short.len]

\* C19 as stated: a record whose total_length field is below 4 makes the
\* read fail with InvalidRecord (offset and message) wherever it stands in
\* the stream, and no database is returned.
C19_ShortRecordAnywhere ==
    ReadStream /\ op.of.choice.short # None /\ op.of.choice.first = HEADER =>
        IsMalformedRecordError

\* C19 (amended): the same for a short record that stands before the
\* ENDLIB record at which the reader stops (as the first record, at library
\* level, inside a structure, inside an element or a skipped element).
C19_ShortRecord ==
    ReadStream /\ op.of.choice.short # None /\ op.of.choice.first = HEADER
               /\ ShortLevel # "after ENDLIB" =>
        IsMalformedRecordError

\* a short record inside a skipped element made the read fail
C19_Witness ==
    /\ ReadStream
    /\ op.of.choice.short # None
    /\ op.of.choice.first = HEADER
    /\ ShortLevel = "skipped element"
    /\ Short.len = 3
    /\ IsMalformedRecordError

\* C20: when the first record of the stream has a record type other than
\* HEADER the read fails with UnexpectedRecord (that type, expected HEADER)
\* whatever follows it, also a short record; when the stream has no bytes
\* the read fails with InvalidRecord; no database is returned.
C20_LeadingHeader ==
    ReadStream =>
        /\ (~op.of.choice.empty /\ op.of.choice.first # HEADER =>
               ret = Err(UnexpectedRecord(op.of.choice.first, HEADER)))
        /\ (op.of.choice.empty =>
               ~IsOk(ret) /\ ret.err.type = "InvalidRecord")

\* a stream that starts with BGNLIB, followed by a short record, was refused
C20_Witness ==
    /\ ReadStream
    /\ op.of.choice.first = BGNLIB
    /\ op.of.choice.short # None
    /\ ret = Err(UnexpectedRecord(BGNLIB, HEADER))

\* ---------------------------------------------------------------------
\* Properties of the excess-64 codec (checked under SpecReal)
\* ---------------------------------------------------------------------
\* numeric equality of f64 values: the two zeros are equal
F64Eq(a, b) == (a.sig = <<>> /\ b.sig = <<>>) \/ a = b

\* what |r - v| < |v| * 1e-10 + 1e-15 entails for |v| >= 1e-9: r is not
\* zero, has the sign of v and is within a factor (1 +- 2^-19) of v, so the
\* binary exponents differ by at most one
WithinTolerance(r, v) ==
    /\ r.sig # <<>>
    /\ r.neg = v.neg
    /\ r.exp - v.exp \in {-1, 0, 1}

\* C16: for each of 0.0, 1.0, -1.0, 0.001, 1e-9, pi (and the test's 3.14159)
\* and 1000.0, decoding the encoded value gives a value within the
\* tolerance of the original; 1.0, -1.0 and 1000.0 decode to themselves;
\* 0.0 encodes to the all-zero bytes and the all-zero bytes decode to 0.0.
C16_RealRoundTrip ==
    /\ (op.name = "f64_to_gds_real8" /\ op.value.sig = <<>> => ret.bytes = Zeros(8))
    /\ (op.name = "gds_real8_to_f64" /\ op.bytes = Zeros(8) => F64Eq(ret.real, TestValue.zero))
    /\ (op.name = "gds_real8_to_f64" /\ op.value \in TestValues =>
          /\ (op.value \in {TestValue.one, TestValue.minus_one, TestValue.thousand} => F64Eq(ret.real, op.value))
          /\ (op.value # TestValue.zero => WithinTolerance(ret.real, op.value)))

\* ---------------------------------------------------------------------
\* Properties of commands on a missing cell (checked under SpecMissing)
\* ---------------------------------------------------------------------
\* whether a command holds state captured by an execute
Captured(cmd) ==
    CASE cmd.type = "AddGeometry" -> cmd.inserted_index # None
      [] cmd.type = "RemoveGeometry" -> cmd.removed # None
      [] OTHER -> FALSE

\* C13: executing a command (first execution or redo) whose cell_id is not in
\* the database changes no cell and leaves the command without captured
\* state, and the next undo of that command changes no cell either, whatever
\* the database holds by then (also when a cell with that id was added back
\* in between).
C13_MissingCellNoOp ==
    [][ /\ (op'.name \in {"execute", "redo"} /\ Len(missed'.seq) > Len(missed.seq)
              /\ Last(missed'.seq) =>
                 /\ cells' = cells
                 /\ ~Captured(Last(undo_stack')))
        /\ (op'.name = "undo" /\ undo_stack # <<>> /\ Last(missed.seq) =>
                 cells' = cells) ]_vars

\* ---------------------------------------------------------------------
\* Properties of the spatial index (checked under SpecSpatial)
\* ---------------------------------------------------------------------
\* the linear scans over every entry built and inserted
ScanPoint(given, point) ==
    Yielded(SelectSeq(given, LAMBDA e : contains_point(e.bbox, point)))

ScanViewport(given, viewport) ==
    Yielded(SelectSeq(given, LAMBDA e : intersects(e.bbox, viewport)))

\* a box whose min corner is not beyond its max corner
Ordered(bbox) == bbox.min.x <= bbox.max.x /\ bbox.min.y <= bbox.max.y

AllOrdered(given) == \A i \in DOMAIN given : Ordered(given[i].bbox)

\* C18: for an index built from a list of entries and extended by insert
\* calls, query_point(p) yields exactly the entries a linear scan with
\* BBox::contains_point finds among all entries built and inserted,
\* query_viewport(v) exactly those a scan with BBox::intersects finds, and
\* len() is the number of entries built and inserted.
C18_SpatialQueries ==
    /\ op.name = "SpatialIndex::query_point" =>
          ret.entries = ScanPoint(op.given, op.point)
    /\ op.name = "SpatialIndex::query_viewport" =>
          ret.entries = ScanViewport(op.given, op.viewport)
    /\ op.name = "SpatialIndex::len" => ret.len = Len(op.given)

\* the same, for boxes and viewports whose corners are ordered: here the
\* index and the linear scans agree
SpatialQueriesOrdered ==
    AllOrdered(op.given) =>
        /\ op.name = "SpatialIndex::query_point" =>
              ret.entries = ScanPoint(op.given, op.point)
        /\ (op.name = "SpatialIndex::query_viewport" /\ Ordered(op.viewport)) =>
              ret.entries = ScanViewport(op.given, op.viewport)
        /\ op.name = "SpatialIndex::len" => ret.len = Len(op.given)
        /\ op.name = "SpatialIndex::is_empty" => ret.bool = (op.given = <<>>)

\* the total_length field of a record as written
total_length(record) == record[1] * 256 + record[2]

\* the field is 4 plus the number of payload bytes, even and at least 4
WellFramed(record) ==
    /\ total_length(record) = 4 + (Len(record) - 4)
    /\ total_length(record) % 2 = 0
    /\ total_length(record) >= 4

\* C21: every record GdsWriter::write emits has a total_length field equal
\* to 4 plus the number of payload bytes written after the header, even
\* and at least 4, for every database.
C21_WellFramedRecords ==
    op.name = "GdsWriter::write" =>
        LET records == GdsWriter_records(database, op.order)
        IN \A i \in DOMAIN records : WellFramed(records[i])

\* the same for the records that fit the 16-bit length field: these are
\* well framed, text payloads of odd length padded with one NUL
WellFramedWithin16Bits ==
    op.name = "GdsWriter::write" =>
        LET records == GdsWriter_records(database, op.order)
        IN \A i \in DOMAIN records :
              Len(records[i]) < 65536 => WellFramed(records[i])

\* ---------------------------------------------------------------------
\* Properties of the IPC layer (checked under SpecApp)
\* ---------------------------------------------------------------------
\* the IPC commands that go through the journal
JournalOps == {"add_rect", "undo", "redo"}

\* the command still refers to what it added, removed or moved in db: the
\* primitive an AddGeometry added stands at its recorded index, the index
\* of a RemoveGeometry that removed a primitive is a place of the cell's
\* sequence, the indices of a MoveGeometry are those of the sequence
Refers(cmd, db) ==
    IsSome(get_cell(db, cmd.cell_id)) =>
        LET geoms == db.cells[cmd.cell_id].geometries
        IN CASE cmd.type = "AddGeometry" ->
                  IsSome(cmd.inserted_index) =>
                      /\ Unwrap(cmd.inserted_index) < Len(geoms)
                      /\ geoms[Unwrap(cmd.inserted_index) + 1] = cmd.geometry
             [] cmd.type = "RemoveGeometry" ->
                  IsSome(cmd.removed) => cmd.index <= Len(geoms)
             [] OTHER -> TRUE

\* C22: every change the IPC layer makes to the geometry sequence of a cell
\* of the open database is made by a journal command (execute, undo or
\* redo), and in every state reached each command on the undo stack still
\* refers to the primitive it added or removed.
C22_OnlyCommandsMutate ==
    [][ /\ (op'.name \notin {"open_project_json", "open_gds_file"} =>
              \A c \in (DOMAIN cells) \cap (DOMAIN cells') :
                  cells'[c].geometries # cells[c].geometries =>
                      op'.name \in JournalOps)
        /\ \A i \in 1..Len(undo_stack') : Refers(undo_stack'[i], database') ]_vars

\* ---------------------------------------------------------------------
\* IPC commands served by concurrent threads (lib.rs): each thread runs
\* the body of its command statement by statement. In SpecApp a command
\* is one step.
\* ---------------------------------------------------------------------
\* Mutex::lock: the guard, when no thread holds one; the caller blocks
\* otherwise
Mutex_lock_shared(m, t) == [acquired |-> TRUE, mutex |-> Some(t)]

Mutex_lock(m, t) ==
    IF m = None THEN [acquired |-> TRUE, mutex |-> Some(t)]
                ELSE [acquired |-> FALSE, mutex |-> m]

AddNames == {"add_rect", "add_polygon", "add_path"}

\* db.get_cell(&id).map(|c| c.geometry_count()).unwrap_or(0)
CountOf(db, cell_id) ==
    IF IsSome(get_cell(db, cell_id)) THEN geometry_count(db.cells[cell_id]) ELSE 0

\* add_rect, add_polygon, add_path up to the lock: the id is parsed and the
\* primitive built
IpcAdd(t, name, cell_id, geom) ==
    /\ issued < MaxCommands
    /\ threads[t].pc = "idle"
    /\ threads' = [threads EXCEPT ![t] =
                       [pc |-> "lock", name |-> name, cell_id |-> cell_id,
                        geom |-> geom, blocked |-> mutex # None]]
    /\ issued' = issued + 1
    /\ UNCHANGED <<database, ret, op, disk, timeline, missed, spatial, mutex>>

\* remove_geometry up to the lock
IpcRemove(t, cell_id, index) ==
    /\ issued < MaxCommands
    /\ threads[t].pc = "idle"
    /\ threads' = [threads EXCEPT ![t] =
                       [pc |-> "lock", name |-> "remove_geometry",
                        cell_id |-> cell_id, index |-> index,
                        blocked |-> mutex # None]]
    /\ issued' = issued + 1
    /\ UNCHANGED <<database, ret, op, disk, timeline, missed, spatial, mutex>>

\* let mut db = state.database.lock()
DatabaseLock(t) ==
    /\ threads[t].pc = "lock"
    /\ Mutex_lock(mutex, t).acquired
    /\ mutex' = Mutex_lock(mutex, t).mutex
    /\ threads' = [threads EXCEPT ![t].pc = "held"]
    /\ UNCHANGED <<database, ret, op, disk, issued, timeline, missed, spatial>>

\* db.execute_command(Box::new(AddGeometryCommand::new(id, geom)));
\* `after` remembers the cell's geometry count right after it
AddExecute(t) ==
    /\ threads[t].pc = "held"
    /\ threads[t].name \in AddNames
    /\ database' = execute_command(database,
                       AddGeometryCommand_new(threads[t].cell_id, threads[t].geom))
    /\ threads' = [threads EXCEPT ![t] =
                       [pc |-> "executed", name |-> threads[t].name,
                        cell_id |-> threads[t].cell_id,
                        after |-> CountOf(database', threads[t].cell_id)]]
    /\ UNCHANGED <<ret, op, disk, issued, timeline, missed, spatial, mutex>>

\* let count = db.get_cell(&id).map(|c| c.geometry_count()).unwrap_or(0)
AddCount(t) ==
    /\ threads[t].pc = "executed"
    /\ threads' = [threads EXCEPT ![t] =
                       [pc |-> "return", name |-> threads[t].name,
                        value |-> Ok(CountOf(database, threads[t].cell_id)),
                        did |-> threads[t].after]]
    /\ UNCHANGED <<database, ret, op, disk, issued, timeline, missed, spatial, mutex>>

\* let exists = db.get_cell(&id).map(|c| index < c.geometry_count())
\*     .unwrap_or(false)
RemoveCheck(t) ==
    /\ threads[t].pc = "held"
    /\ threads[t].name = "remove_geometry"
    /\ threads' = [threads EXCEPT ![t] =
                       [pc |-> "checked", name |-> "remove_geometry",
                        cell_id |-> threads[t].cell_id, index |-> threads[t].index,
                        exists |-> threads[t].index
                                       < CountOf(database, threads[t].cell_id)]]
    /\ UNCHANGED <<database, ret, op, disk, issued, timeline, missed, spatial, mutex>>

\* if exists { db.execute_command(Box::new(RemoveGeometryCommand::new(id,
\* index))) }; `did` remembers how many geometries left the cell
RemoveExecute(t) ==
    /\ threads[t].pc = "checked"
    /\ database' = IF threads[t].exists
                   THEN execute_command(database,
                            RemoveGeometryCommand_new(threads[t].cell_id,
                                                      threads[t].index))
                   ELSE database
    /\ threads' = [threads EXCEPT ![t] =
                       [pc |-> "return", name |-> "remove_geometry",
                        value |-> Ok(threads[t].exists),
                        did |-> CountOf(database, threads[t].cell_id)
                                    - CountOf(database', threads[t].cell_id)]]
    /\ UNCHANGED <<ret, op, disk, issued, timeline, missed, spatial, mutex>>

\* the command returns: its guard is dropped
IpcReturn(t) ==
    /\ threads[t].pc = "return"
    /\ ret' = threads[t].value
    /\ op' = [name |-> threads[t].name, thread |-> t, did |-> threads[t].did]
    /\ mutex' = None
    /\ threads' = [threads EXCEPT ![t] = Idle]
    /\ UNCHANGED <<database, disk, issued, timeline, missed, spatial>>

InitIpc ==
    /\ database = DatabaseWith(<<CellWith("c1", "top", <<R0>>)>>)
    /\ ret = RetUnit
    /\ op = [name |-> "new"]
    /\ disk = NoFiles
    /\ issued = 0
    /\ timeline = <<>>
    /\ missed = Untracked
    /\ spatial = SpatialIndex_new
    /\ mutex = None
    /\ threads = NoThreads

NextIpc ==
    \E t \in Threads :
        \/ \E c \in CellIds : IpcAdd(t, "add_rect", c, Rect_new(1, 0, 0, 1000, 1000))
        \/ IpcAdd(t, "add_polygon", "c1", G0)
        \/ IpcAdd(t, "add_path", "c1", P0)
        \/ \E index \in 0..1 : IpcRemove(t, "c1", index)
        \/ DatabaseLock(t)
        \/ AddExecute(t)
        \/ AddCount(t)
        \/ RemoveCheck(t)
        \/ RemoveExecute(t)
        \/ IpcReturn(t)

SpecIpc == InitIpc /\ [][NextIpc]_vars

\* the threads inside the critical section
Holding == {t \in Threads : threads[t].pc \in {"held", "executed", "checked", "return"}}

\* C23: a thread is past the lock of its IPC command only while it holds the
\* database mutex, so at most one is; the count add_rect, add_polygon and
\* add_path return is the target cell's geometry count right after the
\* call's own command was executed, and remove_geometry returns true
\* exactly when its command removed one geometry.
C23_AtomicCommands ==
    /\ \A t \in Holding : mutex = Some(t)
    /\ op.name \in AddNames => ret = Ok(op.did)
    /\ op.name = "remove_geometry" =>
           /\ op.did \in {0, 1}
           /\ ret = Ok(op.did = 1)

\* a remove_geometry that removed a geometry has returned while the other
\* thread, whose call came in during a critical section, waits for the mutex
C23_Witness ==
    /\ op.name = "remove_geometry"
    /\ ret = Ok(TRUE)
    /\ \E t \in Threads : threads[t].pc = "lock" /\ threads[t].blocked

\* ---------------------------------------------------------------------
\* Loading files that cannot be loaded (lib.rs): the application of
\* SpecApp with a file system that holds, per choice, a stream that stops
\* being a stream after its structure, a JSON document without its cells,
\* or a loadable stream and a loadable document
\* ---------------------------------------------------------------------
CutStream ==
    Streams[[empty |-> FALSE, first |-> HEADER, xy |-> <<>>,
             short |-> Some([at |-> 23, len |-> 0])]]

GoodStream ==
    Streams[[empty |-> FALSE, first |-> HEADER, xy |-> <<>>, short |-> None]]

GoodJson == to_json(DatabaseWith(<<CellWith("c2", "saved", <<G0>>)>>))

CutJson ==
    [kind |-> "json",
     doc |-> [f \in SnapshotFields \ {"cells"} |-> GoodJson.doc[f]]]

LoadDisks ==
    { [NoFiles EXCEPT !["b.gds"] = Some(CutStream), !["a.json"] = Some(CutJson)],
      [NoFiles EXCEPT !["b.gds"] = Some(GoodStream)],
      [NoFiles EXCEPT !["a.json"] = Some(GoodJson)] }

InitLoad ==
    /\ database = LayoutDatabase_new("db1", "Untitled Project")
    /\ ret = RetUnit
    /\ op = [name |-> "new", pre |-> Observed(database)]
    /\ disk \in LoadDisks
    /\ issued = 0
    /\ timeline = <<>>
    /\ missed = Untracked
    /\ spatial = SpatialIndex_new
    /\ mutex = None
    /\ threads = NoThreads

NextLoad ==
    \/ CreateCell("A")
    \/ \E c \in CellIds : AddRect(c)
    \/ Undo
    \/ Redo
    \/ \E p \in Paths : OpenProjectJson(p)
    \/ \E p \in Paths : OpenGdsFile(p)

SpecLoad == InitLoad /\ [][NextLoad]_vars

\* C24: when open_gds_file or open_project_json fails, the shared database
\* is exactly what it was (cells, top_cell, name, undo and redo history);
\* when it succeeds, the shared database is the one read from the file and
\* nothing else.
C24_FailedLoadKeepsState ==
    [][ op'.name \in {"open_project_json", "open_gds_file"} =>
            IF IsOk(ret')
            THEN /\ IsSome(disk[op'.path])
                 /\ database' =
                        IF op'.name = "open_project_json"
                        THEN from_json(Unwrap(disk[op'.path])).db
                        ELSE GdsReader_read(Unwrap(disk[op'.path]), "db2",
                                            <<"c1", "c2">>).db
            ELSE database' = database ]_vars

\* open_gds_file has failed on a stream that is malformed after its
\* structure, with cells and both stacks of the journal in use
C24_Witness ==
    /\ op.name = "open_gds_file"
    /\ ret = Err(GdsError_to_string([type |-> "InvalidRecord"]))
    /\ DOMAIN cells # {}
    /\ undo_stack # <<>>
    /\ redo_stack # <<>>

\* ---------------------------------------------------------------------
\* Bounding boxes (geometry.rs) and Cell::local_bbox (cell.rs)
\* ---------------------------------------------------------------------
\* BBox::from_points
from_points(points) ==
    IF points = <<>> THEN None ELSE Some(BBox_from_points(points))

\* BBox::union
union(bbox, other) ==
    BBox_new(Point_new(Min2(bbox.min.x, other.min.x), Min2(bbox.min.y, other.min.y)),
             Point_new(Max2(bbox.max.x, other.max.x), Max2(bbox.max.y, other.max.y)))

Rect_bbox(rect) == BBox_new(rect.lower_left, rect.upper_right)

Polygon_bbox(polygon) == from_points(polygon.vertices)

\* every point of the centerline gives its two corners, half a width away
Path_bbox(path) ==
    from_points([k \in 1..(2 * Len(path.points)) |->
                    IF k % 2 = 1
                    THEN Point_new(path.points[(k + 1) \div 2].x - Half(path.width),
                                   path.points[(k + 1) \div 2].y - Half(path.width))
                    ELSE Point_new(path.points[k \div 2].x + Half(path.width),
                                   path.points[k \div 2].y + Half(path.width))])

GeomPrimitive_bbox(geom) ==
    CASE geom.type = "Rect" -> Some(Rect_bbox(geom))
      [] geom.type = "Polygon" -> Polygon_bbox(geom)
      [] geom.type = "Path" -> Path_bbox(geom)
      [] geom.type = "Via" -> Some(Via_bbox(geom))

\* geometries.iter().filter_map(|g| g.bbox()).collect()
RECURSIVE filter_map_bbox(_)
filter_map_bbox(geometries) ==
    IF geometries = <<>> THEN <<>>
    ELSE filter_map_bbox(Pop(geometries)) \o GeomPrimitive_bbox(Last(geometries))

\* result after the loop over bboxes[1..n]
RECURSIVE UnionUpTo(_, _)
UnionUpTo(bboxes, n) ==
    IF n = 1 THEN bboxes[1] ELSE union(UnionUpTo(bboxes, n - 1), bboxes[n])

\* mutant: the loop over bboxes[1..] is left out
local_bbox_first(cell) ==
    LET bboxes == filter_map_bbox(cell.geometries)
    IN IF bboxes = <<>> THEN None ELSE Some(bboxes[1])

local_bbox(cell) ==
    LET bboxes == filter_map_bbox(cell.geometries)
    IN IF bboxes = <<>> THEN None ELSE Some(UnionUpTo(bboxes, Len(bboxes)))

\* ---------------------------------------------------------------------
\* The bounding box of a cell: any sequence of add_geometry, add_instance
\* and local_bbox on a cell made by Cell::new
\* ---------------------------------------------------------------------
\* the rectangles of test_cell_bbox, a triangle, a path, a via, a via of
\* negative width, a polygon without vertices and a path without points
BBoxGeoms ==
    { Rect_new(0, 0, 0, 100000, 50000), Rect_new(1, 50000, 25000, 200000, 75000),
      G0, P0, V0, Via_new(1, 2, 4, Point_new(5000, 5000), -4000, 2000),
      Polygon_new(2, <<>>), Path_new(3, <<>>, 1000) }

RetBBox(b) == [bbox |-> b]

LocalBBox(id) ==
    /\ IsSome(get_cell(database, id))
    /\ ret' = RetBBox(local_bbox(cells[id]))
    /\ op' = [name |-> "Cell::local_bbox", id |-> id]
    /\ UNCHANGED <<database, disk, issued, timeline, missed, spatial, mutex, threads>>

NextBBox ==
    \/ \E geom \in BBoxGeoms : CellAddGeometry("c1", geom)
    \/ CellAddInstance("c1", CellInstance_new("i1", "c2", "u1", Transform_default))
    \/ LocalBBox("c1")

SpecBBox == InitCell /\ [][NextBBox]_vars

\* the bounding boxes of the cell's own geometries that have one
OwnBoxes(cell) ==
    {Unwrap(GeomPrimitive_bbox(cell.geometries[i])) :
        i \in {j \in 1..Len(cell.geometries) :
                  IsSome(GeomPrimitive_bbox(cell.geometries[j]))}}

Least(S) == CHOOSE m \in S : \A v \in S : m <= v
Greatest(S) == CHOOSE m \in S : \A v \in S : m >= v

\* componentwise min of mins, max of maxes
UnionOf(boxes) ==
    BBox_new(Point_new(Least({b.min.x : b \in boxes}), Least({b.min.y : b \in boxes})),
             Point_new(Greatest({b.max.x : b \in boxes}),
                       Greatest({b.max.y : b \in boxes})))

MinBelowMax(b) == b.min.x <= b.max.x /\ b.min.y <= b.max.y

Encloses(b, inner) ==
    /\ b.min.x <= inner.min.x /\ b.min.y <= inner.min.y
    /\ b.max.x >= inner.max.x /\ b.max.y >= inner.max.y

\* the box local_bbox gave is the union of the boxes; it has min <= max and
\* contains every box when every box has min <= max
IsUnion(result, boxes) ==
    /\ IsSome(result)
    /\ Unwrap(result) = UnionOf(boxes)
    /\ (\A b \in boxes : MinBelowMax(b)) =>
           /\ MinBelowMax(Unwrap(result))
           /\ \A b \in boxes : Encloses(Unwrap(result), b)

\* C25 as stated: local_bbox is absent when the cell has no geometry and
\* otherwise is the union of the bounding boxes of the cell's own
\* geometries.
C25_AbsentOnlyWithoutGeometry ==
    op.name = "Cell::local_bbox" =>
        IF cells[op.id].geometries = <<>> THEN ret.bbox = None
        ELSE IsUnion(ret.bbox, OwnBoxes(cells[op.id]))

\* C25: local_bbox is absent when no geometry of the cell has a bounding box
\* (no geometry, or only polygons without vertices and paths without
\* points) and otherwise is the union (componentwise min of mins, max of
\* maxes) of the bounding boxes of the cell's own geometries that have one,
\* whatever its instances; the union of boxes with min <= max has
\* min <= max and contains each of them.
C25_LocalBBox ==
    op.name = "Cell::local_bbox" =>
        IF OwnBoxes(cells[op.id]) = {} THEN ret.bbox = None
        ELSE IsUnion(ret.bbox, OwnBoxes(cells[op.id]))

\* test_cell_bbox, on a cell that also has an instance
C25_Witness ==
    /\ op.name = "Cell::local_bbox"
    /\ cells["c1"].instances # <<>>
    /\ cells["c1"].geometries =
           <<Rect_new(0, 0, 0, 100000, 50000), Rect_new(1, 50000, 25000, 200000, 75000)>>
    /\ ret.bbox = Some(BBox_new(Point_new(0, 0), Point_new(200000, 75000)))

\* ---------------------------------------------------------------------
\* The journal on whole and on fractional coordinates: execute, undo and
\* redo of Add, Remove and Move commands on cell "c1", whose coordinates
\* are whole values in one database and the f64 values 0.1, 0.3 and 0.5
\* in the other
\* ---------------------------------------------------------------------
Ieee ==
    [tenth |-> f64_from_bits(<<63, 185, 153, 153, 153, 153, 153, 154>>),
     fifth |-> f64_from_bits(<<63, 201, 153, 153, 153, 153, 153, 154>>),
     minus_fifth |-> f64_from_bits(<<191, 201, 153, 153, 153, 153, 153, 154>>),
     three_tenths |-> f64_from_bits(<<63, 211, 51, 51, 51, 51, 51, 51>>),
     half |-> f64_from_bits(<<63, 224, 0, 0, 0, 0, 0, 0>>),
     one |-> f64_from_bits(<<63, 240, 0, 0, 0, 0, 0, 0>>)]

\* a polygon of one vertex (0.5, 0.3) and a via at (0.1, 0.1)
G1 == Polygon_new(2, <<Point_ieee(Ieee.half, Ieee.three_tenths)>>)
V1 == Via_new(1, 2, 4, Point_ieee(Ieee.tenth, Ieee.tenth), 1000, 1000)

\* no point of the database holds IEEE content
Whole(db) ==
    \A c \in DOMAIN db.cells :
        \A i \in 1..Len(db.cells[c].geometries) :
            \A k \in 1..Len(GeomPoints(db.cells[c].geometries[i])) :
                ~IsIeee(GeomPoints(db.cells[c].geometries[i])[k])

\* cell "kept" is never a command's target
MoveDatabases ==
    { DatabaseWith(<<CellWith("c1", "top", <<G0, V0>>), CellWith("c2", "kept", <<R0>>)>>),
      DatabaseWith(<<CellWith("c1", "top", <<G1, V1>>), CellWith("c2", "kept", <<V1>>)>>) }

MoveCommands(db) ==
    IF Whole(db)
    THEN { MoveGeometryCommand_new("c1", <<0>>, Point_new(1000, 0)),
           MoveGeometryCommand_new("c1", <<1, 0, 7, 1>>, Point_new(-1000, 2000)) }
    ELSE { MoveGeometryCommand_new("c1", <<0>>, Point_ieee(Ieee.fifth, Ieee.one)),
           MoveGeometryCommand_new("c1", <<1, 0, 7, 1>>,
                                   Point_ieee(Ieee.one, Ieee.minus_fifth)) }

EditCommands(db) ==
    { AddGeometryCommand_new("c1", IF Whole(db) THEN P0 ELSE V1),
      RemoveGeometryCommand_new("c1", 0) }

\* redo, with the timeline holding the state after this latest execution
RedoLatest ==
    /\ database' = redo(database).db
    /\ ret' = RetBool(redo(database).ret)
    /\ op' = [name |-> "redo", pre |-> Observed(database)]
    /\ timeline' = IF redo_stack = <<>> THEN timeline
                   ELSE [timeline EXCEPT ![Len(undo_stack) + 2] = Snapshot(database')]
    /\ UNCHANGED <<disk, issued, missed, spatial, mutex, threads>>

InitMoves ==
    /\ database \in MoveDatabases
    /\ ret = RetUnit
    /\ op = [name |-> "new", pre |-> Observed(database)]
    /\ disk = NoFiles
    /\ issued = 0
    /\ timeline = <<Snapshot(database)>>
    /\ missed = Untracked
    /\ spatial = SpatialIndex_new
    /\ mutex = None
    /\ threads = NoThreads

NextUndo ==
    \/ \E cmd \in MoveCommands(database) \cup EditCommands(database) : Execute(cmd)
    \/ Undo
    \/ RedoLatest

SpecUndo == InitMoves /\ [][NextUndo]_vars

\* the geometry sequence of a command's cell in a snapshot of the timeline
GeometriesAt(n, cell_id) == timeline[n].cells[cell_id].geometries

\* in the step, which is an undo of command cmd, the cell's sequence is the
\* one right after the command's latest execution; an AddGeometry's undo
\* removes the element the command added, at the recorded index, which
\* gives the sequence right before that execution
UndoneInPlace(cmd) ==
    IsSome(get_cell(database, cmd.cell_id)) =>
        /\ cells[cmd.cell_id].geometries = GeometriesAt(Len(undo_stack) + 1, cmd.cell_id)
        /\ cmd.type = "AddGeometry" =>
               /\ IsSome(cmd.inserted_index)
               /\ cells[cmd.cell_id].geometries[Unwrap(cmd.inserted_index) + 1] = cmd.geometry
               /\ cells'[cmd.cell_id].geometries =
                      VecRemove(cells[cmd.cell_id].geometries, Unwrap(cmd.inserted_index))
               /\ cells'[cmd.cell_id].geometries = GeometriesAt(Len(undo_stack), cmd.cell_id)

\* C26 as stated: in journal-only sequences, whenever a command's undo runs
\* its cell's geometry sequence is exactly the one right after the command's
\* most recent execute, and the undo of an AddGeometry removes the element
\* it added and gives back the sequence right before that execute.
C26_UndoSeesItsExecute ==
    [][ (op'.name = "undo" /\ undo_stack # <<>>) => UndoneInPlace(Last(undo_stack)) ]_vars

\* C26: the same, for coordinates and deltas on which the f64 additions of
\* the moves are exact (whole values in the model).
C26_UndoSeesItsExecuteWhenExact ==
    [][ (op'.name = "undo" /\ undo_stack # <<>> /\ Whole(database)) =>
            UndoneInPlace(Last(undo_stack)) ]_vars

\* an AddGeometry was undone after a move and a removal that followed it
\* were undone, in the database of whole values
C26_Witness ==
    /\ Whole(database)
    /\ op.name = "undo"
    /\ undo_stack = <<>>
    /\ Len(redo_stack) = 3
    /\ redo_stack[3].type = "AddGeometry"
    /\ redo_stack[2].type = "MoveGeometry"
    /\ redo_stack[1].type = "RemoveGeometry"
    /\ timeline[4].cells # timeline[3].cells
    /\ timeline[3].cells # timeline[2].cells

\* ---------------------------------------------------------------------
\* RemoveGeometry commands on a cell that is also edited directly: execute,
\* undo and redo of removals on cell "c1", between which Cell::add_geometry
\* and Cell::remove_geometry grow and shrink the cell behind the journal,
\* so that an undo can find fewer geometries than its index
\* ---------------------------------------------------------------------
RemoveCommands == {RemoveGeometryCommand_new("c1", index) : index \in {0, 1, MaxGeoms}}

InitRemove ==
    /\ database = DatabaseWith(<<CellWith("c1", "top", <<R0, G0>>)>>)
    /\ ret = RetUnit
    /\ op = [name |-> "new", pre |-> Observed(database)]
    /\ disk = NoFiles
    /\ issued = 0
    /\ timeline = <<>>
    /\ missed = Untracked
    /\ spatial = SpatialIndex_new
    /\ mutex = None
    /\ threads = NoThreads

NextRemove ==
    \/ \E cmd \in RemoveCommands : Execute(cmd)
    \/ Undo
    \/ Redo
    \/ CellAddGeometry("c1", V0)
    \/ CellRemoveGeometry("c1", 0)

SpecRemove == InitRemove /\ [][NextRemove]_vars

\* v with e as its element `index` (0-based), the others in their order
Inserted(v, index, e) == SubSeq(v, 1, index) \o <<e>> \o SubSeq(v, index + 1, Len(v))

\* the primitive a removal at `index` takes out of the sequence, if any
Taken(geoms, index) == IF index < Len(geoms) THEN Some(geoms[index + 1]) ELSE None

\* the step runs cmd.execute on the cell: the command captures what it
\* removed
RemovalCaptured(cmd, captured) ==
    /\ captured.removed = Taken(cells[cmd.cell_id].geometries, cmd.index)
    /\ captured.index = cmd.index

\* the step runs cmd.undo on the cell
RemovalUndone(cmd) ==
    LET geoms == cells[cmd.cell_id].geometries
    IN IF IsSome(cmd.removed)
       THEN /\ cells'[cmd.cell_id].geometries =
                   IF cmd.index <= Len(geoms)
                   THEN Inserted(geoms, cmd.index, Unwrap(cmd.removed))
                   ELSE geoms \o <<Unwrap(cmd.removed)>>
            /\ cells'[cmd.cell_id].modified
            /\ Last(redo_stack') = cmd
       ELSE /\ cells' = cells
            /\ Last(redo_stack') = cmd

\* C27: undo of a RemoveGeometry that removed a primitive re-inserts it at
\* the command's index when the index is at most the cell's current count
\* and appends it otherwise, sets modified and keeps the captured
\* primitive; undo of a RemoveGeometry whose execute removed nothing
\* changes nothing. What a command holds is what its latest execute (by
\* execute or redo) removed.
C27_RemoveUndo ==
    [][ /\ (op'.name = "execute" /\ issued' # issued) =>
               RemovalCaptured(op'.cmd, Last(undo_stack'))
        /\ (op'.name = "redo" /\ redo_stack # <<>>) =>
               RemovalCaptured(Last(redo_stack), Last(undo_stack'))
        /\ (op'.name = "undo" /\ undo_stack # <<>>) =>
               RemovalUndone(Last(undo_stack)) ]_vars

\* a removal at index 1 was undone on a cell that direct removals had
\* emptied meanwhile: the primitive was appended and is all the cell holds
C27_Witness ==
    /\ op.name = "undo"
    /\ redo_stack # <<>>
    /\ Last(redo_stack).index = 1
    /\ Last(redo_stack).removed = Some(G0)
    /\ cells["c1"].geometries = <<G0>>

\* ---------------------------------------------------------------------
\* Moves alone: execute, undo and redo of MoveGeometry commands on cell
\* "c1", on whole coordinates in one database and on the f64 values 0.1,
\* 0.3 and 0.5 in the other; no geometry is added or removed
\* ---------------------------------------------------------------------
NextMoves ==
    \/ \E cmd \in MoveCommands(database) : Execute(cmd)
    \/ Undo
    \/ RedoLatest

SpecMoves == InitMoves /\ [][NextMoves]_vars

\* how often the list names the index
Occurrences(indices, idx) == Cardinality({k \in 1..Len(indices) : indices[k] = idx})

\* the primitive translated by delta `times` times over
RECURSIVE Shifted(_, _, _)
Shifted(geom, delta, times) ==
    IF times = 0 THEN geom
    ELSE Shifted(translate_geometry(geom, delta.x, delta.y), delta, times - 1)

\* the step translates each primitive of the command's cell by delta, once
\* per occurrence of its index in the command's list, and nothing else
MovedBy(cmd, delta) ==
    /\ DOMAIN cells' = DOMAIN cells
    /\ \A c \in DOMAIN cells :
           /\ Len(cells'[c].geometries) = Len(cells[c].geometries)
           /\ \A i \in 1..Len(cells[c].geometries) :
                  cells'[c].geometries[i] =
                      IF c = cmd.cell_id
                      THEN Shifted(cells[c].geometries[i], delta,
                                   Occurrences(cmd.indices, i - 1))
                      ELSE cells[c].geometries[i]

\* a primitive without its coordinates
Unplaced(geom) ==
    CASE geom.type = "Rect" -> [geom EXCEPT !.lower_left = 0, !.upper_right = 0]
      [] geom.type = "Polygon" -> [geom EXCEPT !.vertices = Len(@)]
      [] geom.type = "Path" -> [geom EXCEPT !.points = Len(@)]
      [] geom.type = "Via" -> [geom EXCEPT !.position = 0]

\* the cells hold the primitives they held at the start, in their order
SameOrderAndCount(cs) ==
    \A c \in DOMAIN cs :
        /\ Len(cs[c].geometries) = Len(timeline[1].cells[c].geometries)
        /\ \A i \in 1..Len(cs[c].geometries) :
               Unplaced(cs[c].geometries[i]) = Unplaced(timeline[1].cells[c].geometries[i])

\* the step is an execute, undo or redo of a move and translates as the
\* claim says
MoveSteps ==
    /\ (op'.name = "execute" /\ issued' # issued) => MovedBy(op'.cmd, op'.cmd.delta)
    /\ (op'.name = "redo" /\ redo_stack # <<>>) =>
           MovedBy(Last(redo_stack), Last(redo_stack).delta)
    /\ (op'.name = "undo" /\ undo_stack # <<>>) =>
           MovedBy(Last(undo_stack), Negated(Last(undo_stack).delta))
    /\ SameOrderAndCount(cells')

\* the step undoes the last move that was still executed and leaves each
\* primitive at its original coordinates
BackAtOrigin ==
    (op'.name = "undo" /\ undo_stack # <<>> /\ undo_stack' = <<>>) =>
        \A c \in DOMAIN cells : cells'[c].geometries = timeline[1].cells[c].geometries

\* C28 as stated: under move-only sequences execute translates each
\* primitive at a listed in-range index by delta once per occurrence, undo
\* applies the negated delta to the same indices, order and count never
\* change, and after undoing every executed move each primitive is back at
\* its original coordinates.
C28_MoveInverse == [][ MoveSteps /\ BackAtOrigin ]_vars

\* C28: the same, with the return to the original coordinates for
\* coordinates and deltas on which the f64 additions of the moves and of
\* their undos are exact (whole values in the model).
C28_MoveInverseWhenExact == [][ MoveSteps /\ (Whole(database) => BackAtOrigin) ]_vars

\* three moves, among them the one that lists index 1 twice and index 7,
\* were executed and all undone on whole coordinates; in between the via
\* was away from its place
C28_Witness ==
    /\ Whole(database)
    /\ op.name = "undo"
    /\ undo_stack = <<>>
    /\ Len(redo_stack) = 3
    /\ \E k \in 1..3 : redo_stack[k].indices = <<1, 0, 7, 1>>
    /\ Len(timeline) = 4
    /\ timeline[4].cells["c1"].geometries[2] # timeline[1].cells["c1"].geometries[2]
    /\ cells["c1"].geometries = timeline[1].cells["c1"].geometries

\* ---------------------------------------------------------------------
\* The reader on streams with skipped content: a library of two
\* structures, "top" with a BOUNDARY and an SREF and "sub" with a BOX,
\* into which a TEXT, NODE or AREF element and a record of a type the
\* reader does not know are put; the SREF names "sub", names a structure
\* the stream does not hold, has an empty SNAME or has none
\* ---------------------------------------------------------------------
SrefNames == {None, Some(""), Some("sub"), Some("inv")}

\* the stream in slots, each one record (the SNAME slot can be empty);
\* `level` says where a record put in front of the slot would stand
Slots(sname) ==
    LET at(level, rec) == [level |-> level, rec |-> rec]
    IN << at("first", write_i16_record(HEADER, <<600>>)),
          at("library", write_i16_record(BGNLIB, Timestamp)),
          at("library", write_string_record(LIBNAME, "lib")),
          at("library", write_i16_record(BGNSTR, Timestamp)),
          at("structure", write_string_record(STRNAME, "top")),
          at("structure", write_record(BOUNDARY, <<>>)),
          at("element", write_i16_record(LAYER, <<7>>)),
          at("element", write_i32_record(XY, <<0, 0, 4, 0, 0, 3, 0, 0>>)),
          at("element", write_record(ENDEL, <<>>)),
          at("structure", write_record(SREF, <<>>)),
          at("element", IF sname = None THEN <<>>
                        ELSE write_string_record(SNAME, Unwrap(sname))),
          at("element", write_i32_record(XY, <<5, 5>>)),
          at("element", write_record(ENDEL, <<>>)),
          at("structure", write_record(ENDSTR, <<>>)),
          at("library", write_i16_record(BGNSTR, Timestamp)),
          at("structure", write_string_record(STRNAME, "sub")),
          at("structure", write_record(BOX, <<>>)),
          at("element", write_i32_record(XY, <<0, 0, 2, 2>>)),
          at("element", write_record(ENDEL, <<>>)),
          at("structure", write_record(ENDSTR, <<>>)),
          at("library", write_record(ENDLIB, <<>>)),
          at("after ENDLIB", <<>>) >>

\* a TEXT, a NODE and an AREF element, start record through ENDEL
Elements ==
    [TEXT |-> write_record(TEXT, <<>>) \o write_i16_record(LAYER, <<7>>)
                \o write_i16_record(TEXTTYPE, <<0>>) \o write_i32_record(XY, <<1, 1>>)
                \o write_string_record(STRING_TYPE, "A") \o write_record(ENDEL, <<>>),
     NODE |-> write_record(NODE, <<>>) \o write_i16_record(LAYER, <<7>>)
                \o write_i32_record(XY, <<1, 1>>) \o write_record(ENDEL, <<>>),
     AREF |-> write_record(AREF, <<>>) \o write_string_record(SNAME, "sub")
                \o write_i16_record(COLROW, <<2, 2>>)
                \o write_i32_record(XY, <<0, 0, 8, 0, 0, 8>>)
                \o write_record(ENDEL, <<>>)]

\* records of two types that record_type does not name, without and with
\* payload
UnknownRecords == {write_record(16128, <<>>), write_string_record(65286, "ab")}

SkipChoices ==
    [sname : SrefNames,
     element : {None} \cup
               {Some([at |-> k, kind |-> e]) :
                    k \in {k \in 1..Len(Slots(None)) : Slots(None)[k].level = "structure"},
                    e \in DOMAIN Elements},
     unknown : {None} \cup
               {Some([at |-> k, rec |-> u]) :
                    k \in 1..Len(Slots(None)), u \in UnknownRecords}]

\* the stream of a choice: in front of slot k stand the unknown record and
\* then the element put there
SkipStream(choice) ==
    Concat([k \in 1..Len(Slots(choice.sname)) |->
        (IF choice.unknown # None /\ Unwrap(choice.unknown).at = k
         THEN Unwrap(choice.unknown).rec ELSE <<>>)
        \o (IF choice.element # None /\ Unwrap(choice.element).at = k
            THEN Elements[Unwrap(choice.element).kind] ELSE <<>>)
        \o Slots(choice.sname)[k].rec])

\* some other program writes b.gds
PutSkipStream(choice) ==
    /\ disk["b.gds"] = None
    /\ disk' = [disk EXCEPT !["b.gds"] = Some(GdsFile(SkipStream(choice)))]
    /\ ret' = RetUnit
    /\ op' = [name |-> "stream", choice |-> choice]
    /\ UNCHANGED <<database, issued, timeline, missed, spatial, mutex, threads>>

InitSkip ==
    /\ database = DatabaseWith(<<>>)
    /\ ret = RetUnit
    /\ op = [name |-> "new"]
    /\ disk = NoFiles
    /\ issued = 0
    /\ timeline = <<>>
    /\ missed = Untracked
    /\ spatial = SpatialIndex_new
    /\ mutex = None
    /\ threads = NoThreads

NextSkip ==
    \/ \E choice \in SkipChoices : PutSkipStream(choice)
    \/ GdsRead

SpecSkip == InitSkip /\ [][NextSkip]_vars

\* the records of a stream, each with its type and its bytes
RECURSIVE RecordsFrom(_, _)
RecordsFrom(bytes, pos) ==
    With(read_record(bytes, pos), LAMBDA rec :
      IF rec.kind # "rec" THEN <<>>
      ELSE <<[record_type |-> rec.record_type, bytes |-> SubSeq(bytes, pos + 1, rec.pos)]>>
             \o RecordsFrom(bytes, rec.pos))

\* the records after the first ENDEL
RECURSIVE AfterEndel(_)
AfterEndel(recs) ==
    IF recs = <<>> THEN <<>>
    ELSE IF Head(recs).record_type = ENDEL THEN Tail(recs)
    ELSE AfterEndel(Tail(recs))

\* the records without the TEXT, NODE and AREF elements (start record
\* through ENDEL) and without the records of unknown type
RECURSIVE WithoutSkipped(_)
WithoutSkipped(recs) ==
    IF recs = <<>> THEN <<>>
    ELSE IF Head(recs).record_type \in {TEXT, NODE, AREF}
    THEN WithoutSkipped(AfterEndel(Tail(recs)))
    ELSE IF Head(recs).record_type \notin record_types THEN WithoutSkipped(Tail(recs))
    ELSE <<Head(recs)>> \o WithoutSkipped(Tail(recs))

\* the file with the skipped content deleted
Cleaned(file) ==
    With(WithoutSkipped(RecordsFrom(file.bytes, 0)), LAMBDA recs :
      GdsFile(Concat([i \in 1..Len(recs) |-> recs[i].bytes])))

\* what reading the file gives
ReadOf(file) ==
    With(GdsReader_read(file, "db2", ReaderIds),
         LAMBDA r : IF r.ok THEN Ok(r.db) ELSE Err(r.err))

\* the file starts with a HEADER record
HeaderFirst(file) ==
    With(read_record(file.bytes, 0), LAMBDA rec :
      rec.kind = "rec" /\ rec.record_type = HEADER)

\* C29 as stated: TEXT, NODE and AREF elements are consumed through their
\* ENDEL and contribute nothing, records of unknown type are skipped without
\* error: reading a stream gives what reading the stream without them gives.
C29_SkippedContent ==
    (op.name = "GdsReader::read" /\ op.of.name = "stream") =>
        ret = ReadOf(Cleaned(Unwrap(disk["b.gds"])))

\* C29: the same for the skipped content after the leading HEADER record.
C29_SkippedContentAfterHeader ==
    (op.name = "GdsReader::read" /\ op.of.name = "stream"
         /\ HeaderFirst(Unwrap(disk["b.gds"]))) =>
        ret = ReadOf(Cleaned(Unwrap(disk["b.gds"])))

\* a stream with an AREF element in structure "top" and an unknown record
\* inside the BOUNDARY was read: both cells are there, "top" with its
\* polygon and its one instance
C29_Witness ==
    /\ op.name = "GdsReader::read"
    /\ op.of.name = "stream"
    /\ op.of.choice.sname = Some("sub")
    /\ op.of.choice.element = Some([at |-> 10, kind |-> "AREF"])
    /\ op.of.choice.unknown # None
    /\ Unwrap(op.of.choice.unknown).at = 8
    /\ IsOk(ret)
    /\ Cardinality(DOMAIN ret.ok.cells) = 2
    /\ \E c \in DOMAIN ret.ok.cells :
           /\ ret.ok.cells[c].name = "top"
           /\ Len(ret.ok.cells[c].geometries) = 1
           /\ Len(ret.ok.cells[c].instances) = 1

\* the instance names the structure "top" of the stream gives: the SNAME
\* text of its SREF, when it has one that is not empty
NamesOf(sname) == IF sname = None \/ sname = Some("") THEN <<>> ELSE <<Unwrap(sname)>>

RECURSIVE CellHolding(_, _, _, _)
CellHolding(id, name, geoms, insts) ==
    IF insts = <<>> THEN CellWith(id, name, geoms)
    ELSE add_instance(CellHolding(id, name, geoms, Pop(insts)), Last(insts))

\* 2.0 and 90.0
Mirrored == [Transform_default EXCEPT !.mirror_x = TRUE]
Magnified ==
    [Transform_default EXCEPT
        !.scale = f64_from_bits(<<64, 0, 0, 0, 0, 0, 0, 0>>),
        !.rotation = f64_from_bits(<<64, 86, 128, 0, 0, 0, 0, 0>>),
        !.offset = Point_new(2000, -1000)]

\* instance lists of the parent cell: placements of the cell "c1", named
\* after it ("sub") and named otherwise
InstanceLists ==
    { <<>>,
      <<CellInstance_new("i1", "c1", "u1", Transform_default)>>,
      <<CellInstance_new("i1", "c1", "sub", Mirrored)>>,
      <<CellInstance_new("i1", "c1", "sub", Transform_default),
        CellInstance_new("i2", "c1", "sub", Magnified)>>,
      <<CellInstance_new("i1", "c1", "u1", Magnified),
        CellInstance_new("i2", "c1", "inv", Mirrored)>> }

\* a child "sub" and a parent "top" with each geometry list and each
\* instance list, and the databases of SpecGds
NestDatabases ==
    GdsDatabases
    \cup { DatabaseWith(<<CellWith("c1", "sub", <<V0>>),
                          CellHolding("c2", "top", l, insts)>>) :
               l \in GeomLists(MaxGeoms), insts \in InstanceLists }

InitNest ==
    /\ database \in NestDatabases
    /\ ret = RetUnit
    /\ op = [name |-> "new"]
    /\ disk = NoFiles
    /\ issued = 0
    /\ timeline = <<>>
    /\ missed = Untracked
    /\ spatial = SpatialIndex_new
    /\ mutex = None
    /\ threads = NoThreads

NextNest ==
    \/ \E order \in CellOrders(database) : GdsWrite(order)
    \/ GdsRead

SpecNest == InitNest /\ [][NextNest]_vars

\* the type and the payload of a record as written
RecordType(record) == record[3] * 256 + record[4]
Payload(record) == SubSeq(record, 5, Len(record))

ElementStarts == {BOUNDARY, PATH, SREF}
ElementBody == {LAYER, DATATYPE, WIDTH, XY, SNAME, STRANS, MAG, ANGLE}

\* the record types that may stand right after a record of type t
Follows(t) ==
    CASE t = HEADER -> {BGNLIB}
      [] t = BGNLIB -> {LIBNAME}
      [] t = LIBNAME -> {UNITS}
      [] t \in {UNITS, ENDSTR} -> {BGNSTR, ENDLIB}
      [] t = BGNSTR -> {STRNAME}
      [] t \in {STRNAME, ENDEL} -> ElementStarts \cup {ENDSTR}
      [] t \in ElementStarts \cup ElementBody -> ElementBody \cup {ENDEL}
      [] OTHER -> {}

\* HEADER first, ENDLIB last and nowhere else, every record followed by
\* one that may follow it
WellNested(types) ==
    /\ types # <<>>
    /\ types[1] = HEADER
    /\ types[Len(types)] = ENDLIB
    /\ \A i \in 1..(Len(types) - 1) : types[i + 1] \in Follows(types[i])

\* the n-th smallest member of a set of numbers
Nth(S, n) == CHOOSE i \in S : Cardinality({j \in S : j <= i}) = n

\* the first position after `from` of a record whose type is in `closing`
NextOf(types, from, closing) ==
    CHOOSE j \in (from + 1)..Len(types) :
        /\ types[j] \in closing
        /\ \A k \in (from + 1)..(j - 1) : types[k] \notin closing

\* what an element shows of the primitive or instance it was written
\* from: its start record and the payload of its LAYER or SNAME record
ElementAt(records, types, start) ==
    [start |-> types[start],
     label |-> Payload(records[CHOOSE j \in start..NextOf(types, start, {ENDEL}) :
                                  types[j] \in {LAYER, SNAME}])]

\* the elements of the block that begins at the BGNSTR at `bgn`, in order
ElementsOf(records, types, bgn) ==
    CHOOSE elements \in
        { [k \in 1..Cardinality(starts) |-> ElementAt(records, types, Nth(starts, k))] :
            starts \in { {i \in bgn..NextOf(types, bgn, {ENDSTR}) :
                            types[i] \in ElementStarts} } } : TRUE

\* the same of the geometries and then the instances of a cell, in the
\* order they were added
Declared(cell) ==
    [k \in 1..(Len(cell.geometries) + Len(cell.instances)) |->
        IF k <= Len(cell.geometries)
        THEN [start |-> IF cell.geometries[k].type = "Path" THEN PATH ELSE BOUNDARY,
              label |-> be16(as_i16(IF cell.geometries[k].type = "Via"
                                    THEN cell.geometries[k].cut_layer
                                    ELSE cell.geometries[k].layer_id) % 65536)]
        ELSE [start |-> SREF,
              label |-> Payload(write_string_record(SNAME,
                           cell.instances[k - Len(cell.geometries)].instance_name))]]

\* the blocks of the stream are those of the cells in the order written
BlockPerCell(records, types, db, order) ==
    /\ Cardinality({i \in DOMAIN types : types[i] = BGNSTR}) = Len(order)
    /\ \A n \in 1..Len(order) :
          \E bgn \in {Nth({i \in DOMAIN types : types[i] = BGNSTR}, n)} :
             /\ Payload(records[bgn + 1])
                  = Payload(write_string_record(STRNAME, db.cells[order[n]].name))
             /\ ElementsOf(records, types, bgn) = Declared(db.cells[order[n]])

\* C31: the writer's output is HEADER, BGNLIB, LIBNAME, UNITS, then for
\* each cell exactly one block BGNSTR, STRNAME, elements, ENDSTR, then
\* ENDLIB as the very last record; every BOUNDARY, PATH or SREF is followed
\* by its own ENDEL before the next element or ENDSTR, and a cell's
\* geometries come before its instances, both in declaration order.
C31_WellNestedOutput ==
    op.name = "GdsWriter::write" =>
        \E records \in {GdsWriter_records(database, op.order)} :
            \E types \in {[i \in DOMAIN records |-> RecordType(records[i])]} :
                /\ WellNested(types)
                /\ BlockPerCell(records, types, database, op.order)

C31_Witness ==
    /\ op.name = "GdsWriter::write"
    /\ Len(op.order) = 2
    /\ \E c \in DOMAIN database.cells :
          /\ Len(database.cells[c].geometries) >= 2
          /\ Len(database.cells[c].instances) = 2
          /\ database.cells[c].geometries[1] # database.cells[c].geometries[2]
          /\ database.cells[c].instances[1].instance_name
               # database.cells[c].instances[2].instance_name

\* ---------------------------------------------------------------------
\* Closed boundaries (checked under SpecWriter)
\* ---------------------------------------------------------------------
\* the points of the XY record of the element that starts at `start`, in
\* database units
XYOf(records, types, start) ==
    CHOOSE points \in
        { [k \in 1..(Len(coords) \div 2) |-> Point_new(coords[2 * k - 1], coords[2 * k])] :
            coords \in { as_i32_vec(Payload(records[
                            CHOOSE j \in start..NextOf(types, start, {ENDEL}) :
                                types[j] = XY])) } } : TRUE

\* the XY points of the k-th element of the n-th block
XYOfElement(records, types, n, k) ==
    XYOf(records, types,
         Nth({i \in Nth({b \in DOMAIN types : types[b] = BGNSTR}, n)..Len(types) :
                 types[i] \in ElementStarts}, k))

\* a point in database units
Dbu(p) == Point_new(to_dbu(p.x), to_dbu(p.y))

\* the four corners of a Rect in the order written, in database units
Corners(rect) ==
    << Dbu(rect.lower_left),
       Dbu(Point_new(rect.upper_right.x, rect.lower_left.y)),
       Dbu(rect.upper_right),
       Dbu(Point_new(rect.lower_left.x, rect.upper_right.y)) >>

\* the XY points of every Rect and of every Polygon accepted by `which`
\* are the corners or vertices, in order, followed by the first again
ClosedBoundaries(which(_)) ==
    op.name = "GdsWriter::write" =>
        \E records \in {GdsWriter_records(database, op.order)} :
            \E types \in {[i \in DOMAIN records |-> RecordType(records[i])]} :
                \A n \in 1..Len(op.order) :
                    \A k \in 1..Len(database.cells[op.order[n]].geometries) :
                        \E geom \in {database.cells[op.order[n]].geometries[k]} :
                            \E xy \in {XYOfElement(records, types, n, k)} :
                                /\ geom.type = "Rect" =>
                                      /\ Len(xy) = 5
                                      /\ xy = Corners(geom) \o <<Corners(geom)[1]>>
                                /\ (geom.type = "Polygon" /\ which(geom)) =>
                                      /\ Len(xy) = Len(geom.vertices) + 1
                                      /\ xy = [i \in 1..(Len(geom.vertices) + 1) |->
                                                 Dbu(geom.vertices[
                                                     IF i > Len(geom.vertices) THEN 1 ELSE i])]
                                /\ (geom.type = "Polygon" /\ ~which(geom)) => xy = <<>>

AnyPolygon(poly) == TRUE
HasVertex(poly) == poly.vertices # <<>>

\* C32 as stated: a Rect is written as a BOUNDARY whose XY record has
\* exactly 5 points, the four corners followed by the first corner again;
\* a Polygon with n vertices as a BOUNDARY whose XY record has exactly
\* n + 1 points, its vertices in order followed by the first vertex, for
\* every n including n = 0 and n = 1.
C32_ClosedBoundaries == ClosedBoundaries(AnyPolygon)

\* C32, amended: the same for every n >= 1; the XY record of a Polygon
\* without vertices has no points.
C32_ClosedBoundariesWithVertices == ClosedBoundaries(HasVertex)

C32_Witness ==
    /\ op.name = "GdsWriter::write"
    /\ \E c \in DOMAIN database.cells :
          \E i, j \in 1..Len(database.cells[c].geometries) :
             /\ database.cells[c].geometries[i].type = "Rect"
             /\ database.cells[c].geometries[j].type = "Polygon"
             /\ Len(database.cells[c].geometries[j].vertices) = 1

\* ---------------------------------------------------------------------
\* The reader on streams built record by record: some other program
\* appends records to b.gds after its HEADER, and the file is read
\* ---------------------------------------------------------------------
\* the file holds fewer than MaxRecords records after its HEADER and was
\* not cut short, and rec is appended
PutRecord(rec) ==
    /\ Len(RecordsFrom(Unwrap(disk["b.gds"]).bytes, 0)) <= MaxRecords
    /\ op.name # "truncate"
    /\ op.name = "GdsReader::read" => op.of.name # "truncate"
    /\ disk' = [disk EXCEPT !["b.gds"] = Some(GdsFile(Unwrap(@).bytes \o rec))]
    /\ ret' = RetUnit
    /\ op' = [name |-> "append"]
    /\ UNCHANGED <<database, issued, timeline, missed, spatial, mutex, threads>>

\* the records appended: library, structure and element level records,
\* two names
StreamRecords ==
    { write_i16_record(BGNSTR, Timestamp),
      write_string_record(STRNAME, "A"),
      write_string_record(STRNAME, "ab"),
      write_record(ENDSTR, <<>>),
      write_record(ENDLIB, <<>>),
      write_record(BOUNDARY, <<>>),
      write_record(ENDEL, <<>>) }

InitStream ==
    /\ database = DatabaseWith(<<>>)
    /\ ret = RetUnit
    /\ op = [name |-> "new"]
    /\ disk = [NoFiles EXCEPT !["b.gds"] = Some(GdsFile(write_i16_record(HEADER, <<600>>)))]
    /\ issued = 0
    /\ timeline = <<>>
    /\ missed = Untracked
    /\ spatial = SpatialIndex_new
    /\ mutex = None
    /\ threads = NoThreads

NextStream ==
    \/ \E rec \in StreamRecords : PutRecord(rec)
    \/ GdsRead

SpecStream == InitStream /\ [][NextStream]_vars

\* the record types that start an element
ElementTypes == {BOUNDARY, PATH, SREF, BOX, TEXT, NODE, AREF}

\* The names of the structure blocks of a list of records, in stream
\* order: a block begins at a BGNSTR met at library level and is named
\* "unnamed" until a STRNAME of the block names it; ENDLIB ends the list.
\* With `nested` a STRNAME inside an element of the block counts, too.
RECURSIVE BlockNames(_, _, _, _)
BlockNames(recs, level, names, nested) ==
    IF recs = <<>> THEN names
    ELSE CHOOSE result \in
           { CASE level = "library" /\ t = ENDLIB -> names
               [] level = "library" /\ t = BGNSTR ->
                    BlockNames(Tail(recs), "structure", Append(names, "unnamed"), nested)
               [] level = "library" -> BlockNames(Tail(recs), level, names, nested)
               [] t = STRNAME /\ (level = "structure" \/ nested) ->
                    BlockNames(Tail(recs), level,
                        [names EXCEPT ![Len(names)] = as_string(Payload(Head(recs).bytes))],
                        nested)
               [] level = "structure" /\ t = ENDSTR ->
                    BlockNames(Tail(recs), "library", names, nested)
               [] level = "structure" /\ t \in ElementTypes ->
                    BlockNames(Tail(recs), "element", names, nested)
               [] level = "element" /\ t = ENDEL ->
                    BlockNames(Tail(recs), "structure", names, nested)
               [] OTHER -> BlockNames(Tail(recs), level, names, nested) :
             t \in {Head(recs).record_type} } : TRUE

\* a state right after reading the file the records were appended to
ReadAppended == op.name = "GdsReader::read" /\ op.of.name \in {"new", "append"}

\* the database read has one cell per block, the n-th made cell named as
\* the n-th block, and its top cell is the first
CellPerBlock(nested) ==
    ReadAppended =>
        \E names \in { BlockNames(Tail(RecordsFrom(Unwrap(disk["b.gds"]).bytes, 0)),
                                   "library", <<>>, nested) } :
            /\ IsOk(ret)
            /\ DOMAIN ret.ok.cells = {ReaderIds[n] : n \in 1..Len(names)}
            /\ \A n \in 1..Len(names) : ret.ok.cells[ReaderIds[n]].name = names[n]
            /\ ret.ok.top_cell = IF names = <<>> THEN None ELSE Some(ReaderIds[1])

\* C33 as stated: the reader builds exactly one cell per BGNSTR record met
\* at library level, adds it to the database when its block ends, names
\* it by the last STRNAME of the block or "unnamed" if there is none, and
\* stops at ENDLIB; top_cell is the cell of the first structure block in
\* stream order and is unset exactly when the stream has no structure.
C33_CellPerBlock == CellPerBlock(TRUE)

\* C33, amended: the name is that of the last STRNAME met at structure
\* level, outside the elements of the block.
C33_CellPerBlockStructureLevelName == CellPerBlock(FALSE)

C33_Witness ==
    /\ ReadAppended
    /\ IsOk(ret)
    /\ Cardinality(DOMAIN ret.ok.cells) = 2
    /\ ret.ok.top_cell = Some("n1")
    /\ ret.ok.cells["n1"].name = "ab"
    /\ ret.ok.cells["n2"].name = "unnamed"

\* ---------------------------------------------------------------------
\* The SNAME of a written instance (checked under SpecNest)
\* ---------------------------------------------------------------------
\* the payload of the SNAME record of the k-th instance of the n-th cell
\* written
SnameOf(records, types, db, order, n, k) ==
    ElementsOf(records, types, Nth({i \in DOMAIN types : types[i] = BGNSTR}, n))
        [Len(db.cells[order[n]].geometries) + k].label

\* C34: for every instance written, the SNAME record carries the name of
\* the cell the instance references (the cell whose id is the instance's
\* cell_id), so that a reader matching SNAME against structure names finds
\* the child.
C34_SnameIsChildName ==
    op.name = "GdsWriter::write" =>
        \E records \in {GdsWriter_records(database, op.order)} :
            \E types \in {[i \in DOMAIN records |-> RecordType(records[i])]} :
                \A n \in 1..Len(op.order) :
                    \A k \in 1..Len(database.cells[op.order[n]].instances) :
                        \E inst \in {database.cells[op.order[n]].instances[k]} :
                            /\ inst.cell_id \in DOMAIN database.cells
                            /\ trim_end_nul(SnameOf(records, types, database, op.order, n, k))
                                 = str_bytes(database.cells[inst.cell_id].name)

\* ---------------------------------------------------------------------
\* The unit scale through a write and a read (checked under SpecWriter)
\* ---------------------------------------------------------------------
\* the db_unit_in_um read_lib derives from the UNITS record of the writer
DerivedUnit == times_1e6(as_f64_vec(Payload(write_units))[1])

\* C35: the database-unit scale the reader derives from the UNITS record
\* that GdsWriter emits equals the writer's configured scale (0.001 micron
\* per database unit), so a Rect, Polygon or Path coordinate that is an
\* integer multiple of the database unit is read back equal to the
\* coordinate that was written (geometries are paired cell by cell in the
\* order written, and within a cell by position when the cell kept its
\* number of geometries).
C35_UnitRoundTrip ==
    [][ ReadsWritten /\ Plain(database) =>
          /\ DerivedUnit = DefaultUnit
          /\ IsOk(ret')
          /\ \A i \in 1..Len(op.order) :
                \E written \in {database.cells[op.order[i]].geometries} :
                    \E read \in {ret'.ok.cells[ReaderIds[i]].geometries} :
                        Len(read) = Len(written) =>
                            \A j \in 1..Len(written) :
                                GeomPoints(read[j]) = GeomPoints(written[j]) ]_vars

\* ---------------------------------------------------------------------
\* The reader on streams that end early: records are appended to b.gds
\* after its HEADER, the file may lose its last bytes, and it is read
\* ---------------------------------------------------------------------
\* the file loses its last n bytes
Truncate(n) ==
    /\ op.name \in {"new", "append"}
    /\ disk' = [disk EXCEPT !["b.gds"] =
                   Some(GdsFile(SubSeq(Unwrap(@).bytes, 1, Len(Unwrap(@).bytes) - n)))]
    /\ ret' = RetUnit
    /\ op' = [name |-> "truncate"]
    /\ UNCHANGED <<database, issued, timeline, missed, spatial, mutex, threads>>

\* the records appended: structure and element level records, a skipped
\* element, ENDLIB
CutRecords ==
    { write_i16_record(BGNSTR, Timestamp),
      write_record(ENDSTR, <<>>),
      write_record(ENDLIB, <<>>),
      write_record(BOUNDARY, <<>>),
      write_i32_record(XY, <<0, 0, 4, 0, 0, 3>>),
      write_record(ENDEL, <<>>),
      write_record(TEXT, <<>>) }

\* how many bytes a file may lose
Cuts == 1..3

NextCut ==
    \/ \E rec \in CutRecords : PutRecord(rec)
    \/ \E n \in Cuts : Truncate(n)
    \/ GdsRead

SpecCut == InitStream /\ [][NextCut]_vars

\* The iterations of the loops of read_lib, read_structure, the element
\* readers and skip_to_endel on the input from offset pos, in the order
\* they run.  `loops` are the loops entered and not yet left, innermost
\* last.  An iteration calls read_record once: it meets the end of the
\* input and breaks, or gets an error and returns it, or gets a record
\* and matches its type.  `from` and `to` are the offsets before and
\* after; `ends` says that the iteration leaves its loop.
RECURSIVE LoopTrace(_, _, _, _)
LoopTrace(bytes, pos, loops, trace) ==
    CHOOSE result \in
      { CASE rec.kind = "eof" ->
               IF Len(loops) = 1
               THEN Append(trace, [loop |-> Last(loops), kind |-> "eof",
                                   from |-> pos, to |-> pos, ends |-> TRUE])
               ELSE LoopTrace(bytes, pos, Pop(loops),
                        Append(trace, [loop |-> Last(loops), kind |-> "eof",
                                       from |-> pos, to |-> pos, ends |-> TRUE]))
          [] rec.kind = "err" ->
               Append(trace, [loop |-> Last(loops), kind |-> "err",
                              from |-> pos, to |-> pos, ends |-> TRUE])
          [] Last(loops) = "read_lib" /\ rec.record_type = ENDLIB ->
               Append(trace, [loop |-> Last(loops), kind |-> "rec",
                              from |-> pos, to |-> rec.pos, ends |-> TRUE])
          [] Last(loops) = "read_lib" /\ rec.record_type = BGNSTR ->
               LoopTrace(bytes, rec.pos, Append(loops, "read_structure"),
                   Append(trace, [loop |-> Last(loops), kind |-> "rec",
                                  from |-> pos, to |-> rec.pos, ends |-> FALSE]))
          [] Last(loops) = "read_structure" /\ rec.record_type \in ElementTypes \ {NODE, AREF, TEXT} ->
               LoopTrace(bytes, rec.pos,
                   Append(loops, CASE rec.record_type = BOUNDARY -> "read_boundary"
                                   [] rec.record_type = PATH -> "read_path"
                                   [] rec.record_type = SREF -> "read_sref"
                                   [] rec.record_type = BOX -> "read_box"),
                   Append(trace, [loop |-> Last(loops), kind |-> "rec",
                                  from |-> pos, to |-> rec.pos, ends |-> FALSE]))
          [] Last(loops) = "read_structure" /\ rec.record_type \in {TEXT, NODE, AREF} ->
               LoopTrace(bytes, rec.pos, Append(loops, "skip_to_endel"),
                   Append(trace, [loop |-> Last(loops), kind |-> "rec",
                                  from |-> pos, to |-> rec.pos, ends |-> FALSE]))
          [] \/ Last(loops) = "read_structure" /\ rec.record_type = ENDSTR
             \/ Len(loops) = 3 /\ rec.record_type = ENDEL ->
               LoopTrace(bytes, rec.pos, Pop(loops),
                   Append(trace, [loop |-> Last(loops), kind |-> "rec",
                                  from |-> pos, to |-> rec.pos, ends |-> TRUE]))
          [] OTHER ->
               LoopTrace(bytes, rec.pos, loops,
                   Append(trace, [loop |-> Last(loops), kind |-> "rec",
                                  from |-> pos, to |-> rec.pos, ends |-> FALSE])) :
        rec \in {read_record(bytes, pos)} } : TRUE

\* the iterations of GdsReader::read: those of read_lib after read_header
ReadLoops(bytes) ==
    CHOOSE trace \in
        { IF h.ok THEN LoopTrace(bytes, h.pos, <<"read_lib">>, <<>>) ELSE <<>> :
            h \in {read_header(bytes)} } : TRUE

\* the iteration took one whole record of at least 4 bytes: the bytes its
\* length field counts
ConsumedRecord(bytes, it) ==
    /\ it.to - it.from >= 4
    /\ it.to <= Len(bytes)
    /\ it.to - it.from = bytes[it.from + 1] * 256 + bytes[it.from + 2]

\* a state right after reading the file
ReadFile == op.name = "GdsReader::read" /\ op.of.name \in {"new", "append", "truncate"}

\* read returned a database or an error; every iteration consumed one
\* whole record or ended its loop, the iterations that did not end their
\* loop moved forward, and there are at most `extra` more iterations than
\* whole records in the stream
Terminates(extra) ==
    ReadFile =>
        \E bytes \in {Unwrap(disk["b.gds"]).bytes} :
            \E trace \in {ReadLoops(bytes)} :
                /\ IsOk(ret) \/ "err" \in DOMAIN ret
                /\ IsOk(ret) = (read_header(bytes).ok
                                  /\ trace[Len(trace)].kind # "err")
                /\ \A i \in DOMAIN trace :
                      /\ ConsumedRecord(bytes, trace[i]) \/ trace[i].ends
                      /\ ~trace[i].ends => trace[i].to > trace[i].from
                      /\ i > 1 => trace[i].from = trace[i - 1].to
                /\ Len(trace) <= Len(RecordsFrom(bytes, 0)) + extra

\* C36 as stated: GdsReader::read terminates on every finite byte stream:
\* every iteration of the library, structure, element and skip loops
\* either consumes one whole record of at least 4 bytes or ends the loop,
\* so read returns a database or an error after at most as many loop
\* iterations as the stream has records.
C36_Terminates == Terminates(0)

\* C36, amended: after at most two more loop iterations than the stream
\* has records (the end of the stream ends each of up to three nested
\* loops in an iteration of its own).
C36_TerminatesWithinRecordsPlusTwo == Terminates(2)

C36_Witness ==
    /\ ReadFile
    /\ IsOk(ret)
    /\ \E trace \in {ReadLoops(Unwrap(disk["b.gds"]).bytes)} :
          /\ \E i \in DOMAIN trace : trace[i].loop = "skip_to_endel"
          /\ \E i \in DOMAIN trace : trace[i].loop = "read_boundary" /\ trace[i].kind = "rec"
          /\ Len(trace) = Len(RecordsFrom(Unwrap(disk["b.gds"]).bytes, 0)) + 2

\* ---------------------------------------------------------------------
\* The end of the stream (checked under SpecCut)
\* ---------------------------------------------------------------------
\* the whole records the file begins with, as bytes
WholeRecords(file) ==
    With(RecordsFrom(file.bytes, 0), LAMBDA recs :
      Concat([i \in 1..Len(recs) |-> recs[i].bytes]))

\* the records that close an element, a structure and the library
Closers ==
    write_record(ENDEL, <<>>) \o write_record(ENDSTR, <<>>) \o write_record(ENDLIB, <<>>)

\* C37: end of stream at a record boundary is never an error after the
\* HEADER: if the stream ends where the next record's length field would
\* start (or inside that field), at any nesting depth, read returns
\* success and the element and cell in progress are kept: the database is
\* the one read from the stream with its element, structure and library
\* closed.  Only an end of stream after the length field, inside a
\* record's type field or payload, yields an I/O error.
C37_EndOfStream ==
    (ReadFile /\ HeaderFirst(Unwrap(disk["b.gds"]))) =>
        \E file \in {Unwrap(disk["b.gds"])} :
            \E whole \in {WholeRecords(file)} :
                /\ Len(file.bytes) - Len(whole) < 2 =>
                      /\ IsOk(ret)
                      /\ ret = ReadOf(GdsFile(whole \o Closers))
                /\ ~IsOk(ret) =>
                      /\ ret.err = Io("UnexpectedEof")
                      /\ Len(file.bytes) - Len(whole) >= 2

\* a stream that ends at a record boundary inside a BOUNDARY whose points
\* were read
C37_Witness ==
    /\ ReadFile
    /\ op.of.name = "append"
    /\ IsOk(ret)
    /\ \A i \in DOMAIN RecordsFrom(Unwrap(disk["b.gds"]).bytes, 0) :
          RecordsFrom(Unwrap(disk["b.gds"]).bytes, 0)[i].record_type
              \notin {ENDEL, ENDSTR, ENDLIB}
    /\ "n1" \in DOMAIN ret.ok.cells
    /\ Len(ret.ok.cells["n1"].geometries) = 1

\* ---------------------------------------------------------------------
\* The editing commands of the IPC layer, each under the database mutex
\* from its first statement to its return: add_rect, add_polygon,
\* add_path, remove_geometry, move_geometries, undo and redo on a database
\* with the cell "c1"; "c2" is the id of no cell
\* ---------------------------------------------------------------------
IpcAddGeometry(name, cell_id) ==
    /\ issued < MaxCommands
    /\ \E r \in { CASE name = "add_rect" -> add_rect(database, cell_id, 1, 0, 0, 1000, 1000)
                     [] name = "add_polygon" -> add_polygon(database, cell_id, 2, G0.vertices)
                     [] name = "add_path" -> add_path(database, cell_id, 3, P0.points, 1000) } :
          /\ database' = r.db
          /\ ret' = r.ret
    /\ op' = [name |-> name, cell_id |-> cell_id, pre |-> Observed(database)]
    /\ issued' = issued + 1
    /\ UNCHANGED <<disk, timeline, missed, spatial, mutex, threads>>

IpcRemoveGeometry(cell_id, index) ==
    /\ issued < MaxCommands
    /\ database' = remove_geometry_ipc(database, cell_id, index).db
    /\ ret' = remove_geometry_ipc(database, cell_id, index).ret
    /\ op' = [name |-> "remove_geometry", cell_id |-> cell_id, index |-> index,
              pre |-> Observed(database)]
    /\ issued' = issued + 1
    /\ UNCHANGED <<disk, timeline, missed, spatial, mutex, threads>>

IpcMoveGeometries(cell_id, indices) ==
    /\ issued < MaxCommands
    /\ database' = move_geometries(database, cell_id, indices, 1000, -1000).db
    /\ ret' = move_geometries(database, cell_id, indices, 1000, -1000).ret
    /\ op' = [name |-> "move_geometries", cell_id |-> cell_id,
              pre |-> Observed(database)]
    /\ issued' = issued + 1
    /\ UNCHANGED <<disk, timeline, missed, spatial, mutex, threads>>

InitEdit ==
    /\ database = DatabaseWith(<<CellWith("c1", "top", <<R0, G0>>)>>)
    /\ ret = RetUnit
    /\ op = [name |-> "new"]
    /\ disk = NoFiles
    /\ issued = 0
    /\ timeline = <<>>
    /\ missed = Untracked
    /\ spatial = SpatialIndex_new
    /\ mutex = None
    /\ threads = NoThreads

NextEdit ==
    \/ \E name \in AddNames, cell_id \in CellIds : IpcAddGeometry(name, cell_id)
    \/ \E cell_id \in CellIds, index \in 0..(MaxGeoms + 1) :
          IpcRemoveGeometry(cell_id, index)
    \/ \E cell_id \in CellIds, indices \in {<<0>>, <<1, 0>>} :
          IpcMoveGeometries(cell_id, indices)
    \/ Undo
    \/ Redo

SpecEdit == InitEdit /\ [][NextEdit]_vars

\* the step pushed exactly one command of the given type for the cell and
\* emptied the redo stack
PushedOne(type, cell_id) ==
    /\ Len(undo_stack') = Len(undo_stack) + 1
    /\ Pop(undo_stack') = undo_stack
    /\ Last(undo_stack').type = type
    /\ Last(undo_stack').cell_id = cell_id
    /\ redo_stack' = <<>>

\* C38: remove_geometry touches the journal only for a valid target: when
\* the cell id is unknown or the index is out of range it returns false
\* and leaves the database, the undo stack and the redo stack unchanged;
\* when it returns true exactly one RemoveGeometry command was pushed, the
\* redo stack was cleared and the cell has one geometry fewer.  By
\* contrast add_rect, add_polygon, add_path and move_geometries for an
\* unknown cell id change no cell but still push a command and clear the
\* redo stack.
C38_RemoveOnlyValidTarget ==
    [][ /\ (issued' = issued + 1 /\ op'.name = "remove_geometry") =>
              \E valid \in { /\ op'.cell_id \in DOMAIN cells
                              /\ op'.index < CountOf(database, op'.cell_id) } :
                  /\ ret' = Ok(valid)
                  /\ ~valid => database' = database
                  /\ valid =>
                        /\ PushedOne("RemoveGeometry", op'.cell_id)
                        /\ Last(undo_stack').index = op'.index
                        /\ DOMAIN cells' = DOMAIN cells
                        /\ CountOf(database', op'.cell_id)
                             = CountOf(database, op'.cell_id) - 1
        /\ (/\ issued' = issued + 1
            /\ op'.name \in AddNames \cup {"move_geometries"}
            /\ op'.cell_id \notin DOMAIN cells) =>
              /\ cells' = cells
              /\ PushedOne(IF op'.name = "move_geometries" THEN "MoveGeometry"
                            ELSE "AddGeometry", op'.cell_id) ]_vars

\* remove_geometry returned true with commands to redo; and returned
\* false for an index past the end
C38_Witness ==
    /\ op.name = "remove_geometry"
    /\ ret = Ok(TRUE)
    /\ op.pre.can_redo
    /\ ~can_redo(database)

====
